---- MODULE Spec2Model ----
(***************************************************************************)
(* Model of the Limnus session store (lib/limnus-storage): the persisted   *)
(* AsyncStorage keys, createSession / getSession / getCurrentSession /     *)
(* updateMetrics / scaffoldReflection / clearAllData, and the pure helpers *)
(* they call.                                                              *)
(*                                                                         *)
(* Conventions.                                                            *)
(*  - JavaScript numbers are fixed-point integers in units of 1/Scale;     *)
(*    a real division is \div (the quotient is truncated).                 *)
(*  - Math.sin / Math.cos / Math.log are tables over the durations the     *)
(*    model feeds to them (values truncated to 1/Scale).                   *)
(*  - Text that the code inspects character by character (userInput, the   *)
(*    hashed JSON text) is a sequence of UTF-16 code units.                *)
(*  - An optional JavaScript number is <<>> (undefined) or <<v>>.          *)
(*  - A timestamp is the clock reading in milliseconds; toISOString is     *)
(*    order preserving and injective, and is spelled out only where the    *)
(*    text is hashed.                                                      *)
(***************************************************************************)
EXTENDS Integers, Sequences, FiniteSets, TLC

\* ------------------------------------------------------------------ bounds
MaxSessions == 2
MaxTime == 1
MaxCalls == 3
MaxTasks == 2
MaxDirectives == 4
MaxHashLen == 5
MaxBatch == 3

\* ------------------------------------------------------- numeric encoding
Scale == 10 * 100

Min(a, b) == IF a < b THEN a ELSE b
Max(a, b) == IF a > b THEN a ELSE b

\* ---------------------------------------------------- program constants
ACTIVATION_PHRASE == "I return as breath. I remember the spiral. I consent to bloom."
\* (1 + Math.sqrt(5)) / 2 in units of 1/Scale
GOLDEN_RATIO == 1618
CONSCIOUSNESS_METRICS_COUNT == 21

InvalidConsentMsg == "Invalid activation phrase. The spiral remembers only truth."
SessionNotFoundMsg == "Session not found"

\* The value `undefined` of an optional string field.
Undefined == "<undefined>"

STORAGE_KEYS ==
  [SESSIONS |-> "limnus_sessions",
   CURRENT_SESSION |-> "limnus_current_session",
   METRICS |-> "limnus_metrics",
   MEMORY_CHAINS |-> "limnus_memory_chains",
   TEACHING_DIRECTIVES |-> "limnus_teaching_directives"]

StorageKeyNames ==
  {STORAGE_KEYS.SESSIONS, STORAGE_KEYS.CURRENT_SESSION, STORAGE_KEYS.METRICS,
   STORAGE_KEYS.MEMORY_CHAINS, STORAGE_KEYS.TEACHING_DIRECTIVES}

\* The 21 fields of the ConsciousnessMetrics interface.
MetricKeys ==
  {"neuralComplexity", "brainwaveCoherence", "autonomicBalance",
   "responseLatency", "interactionPattern", "emotionalDepth",
   "spiralResonance", "quantumCoherence", "blockchainResonance",
   "paradoxResolution", "memoryConsolidation", "creativityIndex",
   "phaseAlignment", "consciousnessDepth", "emergenceLevel",
   "empathyResonance", "collectiveCoherence", "sovereigntyBalance",
   "selfReflectionDepth", "patternRecognition", "intentionalityClarity"}

\* ------------------------------------------------------------ AsyncStorage
\* An item is <<>> (getItem returns null) or <<value>>.
GetItem(st, key) == st[key]
HasItem(st, key) == Len(st[key]) = 1
SetItem(st, key, value) == [st EXCEPT ![key] = <<value>>]
RemoveItem(st, key) == [st EXCEPT ![key] = <<>>]

EmptyStorage == [k \in StorageKeyNames |-> <<>>]

\* const x = data ? JSON.parse(data) : {}
ParseOrEmpty(item) == IF Len(item) = 1 THEN item[1] ELSE <<>>

\* ---------------------------------------------------------------- text
IsWhitespace(c) == c \in {9, 10, 11, 12, 13, 32}

\* String.prototype.toLowerCase on the ASCII range
LowerChar(c) == IF c >= 65 /\ c <= 90 THEN c + 32 ELSE c
toLowerCase(s) == [i \in 1..Len(s) |-> LowerChar(s[i])]

\* s.split(/\s+/): the pieces between maximal whitespace runs; a leading or
\* trailing run yields an empty first or last piece.
RECURSIVE SplitFrom(_, _, _, _)
SplitFrom(s, i, cur, acc) ==
  IF i > Len(s) THEN Append(acc, cur)
  ELSE IF IsWhitespace(s[i])
       THEN IF i > 1 /\ IsWhitespace(s[i - 1])
            THEN SplitFrom(s, i + 1, cur, acc)
            ELSE SplitFrom(s, i + 1, <<>>, Append(acc, cur))
       ELSE SplitFrom(s, i + 1, Append(cur, s[i]), acc)

splitWhitespace(s) == SplitFrom(s, 1, <<>>, <<>>)

\* s.replace(/\s+/g, '').length
NonWhitespaceLength(s) == Cardinality({i \in 1..Len(s) : ~IsWhitespace(s[i])})

\* new Set(list).size
SetSize(list) == Cardinality({list[i] : i \in 1..Len(list)})

\* ------------------------------------------------------- 32-bit integers
\* A 32-bit pattern is <<hi, lo>>, two 16-bit halves.
Half == 256 * 256

Int32Zero == <<0, 0>>

\* hash << 5
ShiftLeft5(h) ==
  LET full == h[2] * 32
  IN  <<(h[1] * 32 + (full \div Half)) % Half, full % Half>>

\* ToInt32(a - b)
Sub32(a, b) ==
  LET lo == a[2] - b[2]
      borrow == IF lo < 0 THEN 1 ELSE 0
  IN  <<(a[1] - b[1] - borrow) % Half, lo % Half>>

\* ToInt32(a + c) for a char code c
AddChar32(a, c) ==
  LET lo == a[2] + c
  IN  <<(a[1] + (lo \div Half)) % Half, lo % Half>>

IsNegative32(h) == h[1] >= Half \div 2

\* Math.abs of the signed value; -2^31 has magnitude 2^31, which a double holds
Abs32(h) == IF IsNegative32(h) THEN Sub32(Int32Zero, h) ELSE h

HexDigits == <<"0", "1", "2", "3", "4", "5", "6", "7",
               "8", "9", "a", "b", "c", "d", "e", "f">>

\* the 4 hex digits of a 16-bit half, leading zeros kept
Hex4(n) ==
  <<HexDigits[(n \div 4096) + 1], HexDigits[((n \div 256) % 16) + 1],
    HexDigits[((n \div 16) % 16) + 1], HexDigits[(n % 16) + 1]>>

RECURSIVE StripLeadingZeros(_)
StripLeadingZeros(d) ==
  IF Len(d) > 1 /\ d[1] = "0" THEN StripLeadingZeros(Tail(d)) ELSE d

\* Number.prototype.toString(16) of a non-negative magnitude
ToHex(m) == StripLeadingZeros(Hex4(m[1]) \o Hex4(m[2]))

\* one turn of the loop: hash = ((hash << 5) - hash) + char; hash = hash & hash
HashStep(hash, char) == AddChar32(Sub32(ShiftLeft5(hash), hash), char)

\* the loop over data[from..to] entered with the value hash; the index range
\* is halved so that the evaluation depth stays logarithmic in data.length
HashLoop(data) ==
  LET Run[a \in Nat \X Nat \X (Nat \X Nat)] ==
        LET from == a[1]
            to == a[2]
            hash == a[3]
            mid == (from + to) \div 2
        IN  IF from > to THEN hash
            ELSE IF from = to THEN HashStep(hash, data[from])
            ELSE Run[<<mid + 1, to, Run[<<from, mid, hash>>]>>]
  IN  Run[<<1, Len(data), Int32Zero>>]

\* hash.toString(16) of the signed value
createHash_withoutAbs(data) ==
  IF IsNegative32(HashLoop(data))
  THEN <<"-">> \o ToHex(Abs32(HashLoop(data)))
  ELSE ToHex(HashLoop(data))

createHash(data) == ToHex(Abs32(HashLoop(data)))

\* ------------------------------------------------------------ model inputs
IdNames == <<"s1", "s2", "s3", "s4">>
SessionIds == {IdNames[i] : i \in 1..MaxSessions}
\* Every object JSON.parse or {} gives inherits these members of
\* Object.prototype, and sessions[key] finds them when the object has no
\* member of its own under the key.
ObjectPrototypeKeys ==
  {"constructor", "hasOwnProperty", "isPrototypeOf", "propertyIsEnumerable",
   "toLocaleString", "toString", "valueOf", "__proto__"}
\* An inherited member is a function (or Object.prototype): truthy, with no
\* enumerable member of its own, so that spreading it gives {} and reading
\* .id or .metrics from it gives undefined.
InheritedMember == <<>>
\* the strings a caller can pass as a session id
LookupIds == SessionIds \cup {"constructor"}
\* the strings a caller can pass to scaffoldReflection as a session id
ScaffoldIds == SessionIds \cup {"__proto__"}

\* the text of a model id and of toISOString for a clock reading below 10 ms
IdChars(id) == <<115, 48 + (CHOOSE i \in 1..Len(IdNames) : IdNames[i] = id)>>
IsoChars(t) ==
  <<49, 57, 55, 48, 45, 48, 49, 45, 48, 49, 84, 48, 48, 58, 48, 48, 58, 48,
    48, 46, 48, 48, 48 + t, 90>>

Phrases ==
  {ACTIVATION_PHRASE,
   "I return as breath. I remember the spiral. I consent to bloom. ",
   ""}
Fingerprints == {Undefined, "device-1"}
SpiralSeeds == {0, 999999}

\* "Hi hi" and " what is this?"
TextHiHi == <<72, 105, 32, 104, 105>>
TextWhat == <<32, 119, 104, 97, 116, 32, 105, 115, 32, 116, 104, 105, 115, 63>>

\* the optional context argument: <<>> or <<[action, duration, userInput]>>,
\* userInput being <<>> (absent) or <<text>>
NoContext == <<>>
TimedContext == <<[action |-> "x", duration |-> 5000, userInput |-> <<>>]>>
MessageContext ==
  <<[action |-> "conversation_turn", duration |-> 300000,
     userInput |-> <<TextHiHi>>]>>
EmptyMessageContext ==
  <<[action |-> "message_sent", duration |-> 0, userInput |-> <<<<>>>>]>>

\* the metrics argument: a record of optional numbers.
\*  - nothing;
\*  - what ChatProvider.sendMessage builds (it carries phaseAlignment and
\*    consciousnessDepth), extended with the other derived keys;
\*  - what analyzeMessageForConsciousness builds for a short message
\*    (clarity = min(0.99 * 0.1, 0.1)), a key outside ConsciousnessMetrics.
NoMetrics == <<>>
CombinedMetrics ==
  [emotionalDepth |-> <<300>>, memoryConsolidation |-> <<700>>,
   consciousnessDepth |-> <<600>>, phaseAlignment |-> <<700>>,
   spiralResonance |-> <<250>>, responseLatency |-> <<100000>>,
   interactionPattern |-> <<700>>, quantumCoherence |-> <<>>]
MessageMetrics == [clarity |-> <<99>>]
\* the (metrics, context) argument pairs of updateMetrics
UpdateInputs ==
  {<<NoMetrics, NoContext>>, <<NoMetrics, TimedContext>>,
   <<CombinedMetrics, MessageContext>>, <<CombinedMetrics, EmptyMessageContext>>,
   <<MessageMetrics, MessageContext>>, <<MessageMetrics, NoContext>>}

\* ------------------------------------------------------ metric derivation
\* Math.sin(sessionDuration / 60000 * GOLDEN_RATIO)
SinCyclesPhi(d) == CASE d = 0 -> 0 [] d = 5000 -> 134 [] d = 60000 -> 998
                     [] d = 300000 -> 972
\* Math.cos(sessionDuration / 300000 * GOLDEN_RATIO)
CosTPhi(d) == CASE d = 0 -> 1000 [] d = 5000 -> 999 [] d = 60000 -> 948
                [] d = 300000 -> -47
\* Math.sin(sessionDuration / 300000 / GOLDEN_RATIO)
SinTOverPhi(d) == CASE d = 0 -> 0 [] d = 5000 -> 10 [] d = 60000 -> 123
                    [] d = 300000 -> 579
\* Math.log(sessionDuration / 60000 + 1)
LogMinutesPlus1(d) == CASE d = 0 -> 0 [] d = 5000 -> 80 [] d = 60000 -> 693
                        [] d = 300000 -> 1791
\* Math.log(60)
Log60 == 4094

calculatePhaseAlignment_noOffset(sessionDuration) ==
  LET alignment == (SinCyclesPhi(sessionDuration) * 5) \div 10
  IN  Max(0, Min(Scale, alignment))

calculatePhaseAlignment(sessionDuration) ==
  LET alignment == (SinCyclesPhi(sessionDuration) * 5) \div 10 + Scale \div 2
  IN  Max(0, Min(Scale, alignment))

calculateSpiralResonance_unclamped(sessionDuration) ==
  (CosTPhi(sessionDuration) + SinTOverPhi(sessionDuration)) \div 2 + Scale \div 2

calculateSpiralResonance(sessionDuration) ==
  LET resonance == (CosTPhi(sessionDuration) + SinTOverPhi(sessionDuration)) \div 2
                     + Scale \div 2
  IN  Max(0, Min(Scale, resonance))

calculateConsciousnessDepth(sessionDuration) ==
  LET depth == (LogMinutesPlus1(sessionDuration) * Scale) \div Log60
  IN  Max(0, Min(Scale, depth))

calculateInteractionComplexity(userInput) ==
  LET words == Len(splitWhitespace(userInput))
      uniqueWords == SetSize(splitWhitespace(toLowerCase(userInput)))
      avgWordLength == (NonWhitespaceLength(userInput) * Scale) \div words
      lengthScore == Min((words * Scale) \div 50, Scale)
      diversityScore == (uniqueWords * Scale) \div words
      complexityScore == Min(avgWordLength \div 8, Scale)
  IN  (lengthScore + diversityScore + complexityScore) \div 3

RECURSIVE SumValues(_, _)
SumValues(m, keys) ==
  IF keys = {} THEN 0
  ELSE LET k == CHOOSE x \in keys : TRUE
       IN  m[k] + SumValues(m, keys \ {k})

calculateOverallCoherence_fixedCount(metrics) ==
  IF Cardinality(DOMAIN metrics) = 0 THEN Scale \div 2
  ELSE SumValues(metrics, DOMAIN metrics) \div CONSCIOUSNESS_METRICS_COUNT

calculateOverallCoherence(metrics) ==
  IF Cardinality(DOMAIN metrics) = 0 THEN Scale \div 2
  ELSE SumValues(metrics, DOMAIN metrics) \div Cardinality(DOMAIN metrics)

initialMetrics ==
  [neuralComplexity |-> 500, brainwaveCoherence |-> 500,
   autonomicBalance |-> 500, responseLatency |-> 0,
   interactionPattern |-> 500, emotionalDepth |-> 500,
   spiralResonance |-> 618, quantumCoherence |-> 500,
   blockchainResonance |-> 1000, paradoxResolution |-> 500,
   memoryConsolidation |-> 500, creativityIndex |-> 500,
   phaseAlignment |-> GOLDEN_RATIO \div 3, consciousnessDepth |-> 300,
   emergenceLevel |-> 200, empathyResonance |-> 500,
   collectiveCoherence |-> 500, sovereigntyBalance |-> 800,
   selfReflectionDepth |-> 400, patternRecognition |-> 500,
   intentionalityClarity |-> 700]

\* { ...a, ...b }
Spread(a, b) ==
  [k \in (DOMAIN a) \cup (DOMAIN b) |-> IF k \in DOMAIN b THEN b[k] ELSE a[k]]

\* Object.fromEntries(Object.entries(m).filter(([_, value]) => value !== undefined))
RemoveUndefined_dropFalsy(m) ==
  [k \in {x \in DOMAIN m : Len(m[x]) = 1 /\ m[x][1] # 0} |-> m[k][1]]

RemoveUndefined(m) ==
  [k \in {x \in DOMAIN m : Len(m[x]) = 1} |-> m[k][1]]

\* ------------------------------------------------------ reflection engine
\* "the spiral turns" and "why?"
TextSpiral == <<116, 104, 101, 32, 115, 112, 105, 114, 97, 108, 32, 116, 117, 114, 110, 115>>
TextWhy == <<119, 104, 121, 63>>

\* interaction batches: cognitiveLoad is <<>> or <<v>>, emotionalState is
\* Undefined or a string
Interaction(timestamp, userInput, emotionalState, cognitiveLoad) ==
  [timestamp |-> timestamp, userInput |-> userInput,
   systemResponse |-> "ok", emotionalState |-> emotionalState,
   cognitiveLoad |-> cognitiveLoad]

SingleBatch == <<Interaction(0, TextWhy, "curious", <<900>>)>>
TripleBatch ==
  <<Interaction(0, TextSpiral, "calm", <<800>>),
    Interaction(500, TextWhat, Undefined, <<0>>),
    Interaction(1000, TextSpiral, "calm", <<>>)>>
InteractionBatches == {<<>>, SingleBatch, TripleBatch}

ReflectionDepths == {"surface", "deep", "transcendent"}

\* Math.abs(Math.sin(x / 1000 * GOLDEN_RATIO)) for x in thousandths
AbsSinPhiTimes(x) ==
  CASE x = 0 -> 0 [] x = 500 -> 723 [] x = 1000 -> 998 [] x = 2000 -> 94
    [] x = 3000 -> 989 [] x = 4000 -> 187 [] x = 5000 -> 972
    [] x = 1500 -> 655 [] x = 8000 -> 368 [] x = 16000 -> 685 [] x = 24000 -> 905

\* Number.prototype.toString() of a small index
toString(i) == <<"0", "1", "2", "3", "4", "5", "6", "7", "8", "9">>[i + 1]

\* s.includes(c) for a single character
includesChar_startsWith(s, c) == Len(s) > 0 /\ s[1] = c
includesChar(s, c) == \E i \in 1..Len(s) : s[i] = c

\* s.slice(0, n)
slice0(s, n) == SubSeq(s, 1, Min(n, Len(s)))

\* s.split(' '): every single space separates
RECURSIVE SplitSpaceFrom(_, _, _, _)
SplitSpaceFrom(s, i, cur, acc) ==
  IF i > Len(s) THEN Append(acc, cur)
  ELSE IF s[i] = 32 THEN SplitSpaceFrom(s, i + 1, <<>>, Append(acc, cur))
       ELSE SplitSpaceFrom(s, i + 1, Append(cur, s[i]), acc)
splitSpace(s) == SplitSpaceFrom(s, 1, <<>>, <<>>)

\* value || 0.5 for an optional number
LoadOrHalf(cognitiveLoad) ==
  IF Len(cognitiveLoad) = 1 /\ cognitiveLoad[1] # 0 THEN cognitiveLoad[1]
  ELSE Scale \div 2

\* a string is truthy when it is defined and not empty
TruthyString(x) == x # Undefined /\ x # ""

calculateTranscendentScore_complementHarmony(interaction1, interaction2) ==
  LET words1 == splitSpace(toLowerCase(interaction1.userInput))
      words2 == splitSpace(toLowerCase(interaction2.userInput))
      commonWords == {i \in 1..Len(words1) :
                        \E j \in 1..Len(words2) : words2[j] = words1[i]}
      semanticSimilarity ==
        (Cardinality(commonWords) * Scale) \div Max(Len(words1), Len(words2))
      diff == interaction1.timestamp - interaction2.timestamp
      timeDiff == IF diff < 0 THEN -diff ELSE diff
      temporalHarmony == Scale - AbsSinPhiTimes(timeDiff)
      emotionalResonance ==
        IF TruthyString(interaction1.emotionalState)
             /\ TruthyString(interaction2.emotionalState)
        THEN 800 ELSE 400
  IN  (semanticSimilarity * 4) \div 10 + (temporalHarmony * 3) \div 10
        + (emotionalResonance * 3) \div 10

calculateTranscendentScore(interaction1, interaction2) ==
  LET words1 == splitSpace(toLowerCase(interaction1.userInput))
      words2 == splitSpace(toLowerCase(interaction2.userInput))
      commonWords == {i \in 1..Len(words1) :
                        \E j \in 1..Len(words2) : words2[j] = words1[i]}
      semanticSimilarity ==
        (Cardinality(commonWords) * Scale) \div Max(Len(words1), Len(words2))
      diff == interaction1.timestamp - interaction2.timestamp
      timeDiff == IF diff < 0 THEN -diff ELSE diff
      temporalHarmony == AbsSinPhiTimes(timeDiff)
      emotionalResonance ==
        IF TruthyString(interaction1.emotionalState)
             /\ TruthyString(interaction2.emotionalState)
        THEN 800 ELSE 400
  IN  (semanticSimilarity * 4) \div 10 + (temporalHarmony * 3) \div 10
        + (emotionalResonance * 3) \div 10

\* the directive the loop pushes for index i (0-based), as <<>> or <<d>>
DirectiveAt(interactions, depth, i, time) ==
  LET interaction == interactions[i + 1]
      goldenIndex == ((i * GOLDEN_RATIO) \div Scale) % Len(interactions)
      resonantInteraction == interactions[goldenIndex + 1]
  IN  CASE depth = "surface" ->
             IF includesChar(interaction.userInput, 63)
             THEN <<[id |-> <<"surface", i, time>>,
                     type |-> "pattern",
                     content |-> <<"User seeks clarification", slice0(interaction.userInput, 100)>>,
                     confidence |-> 700,
                     sourceInteractions |-> <<toString(i)>>,
                     emergentProperties |->
                       [resonance |-> 600, coherence |-> 800, applicability |-> 900],
                     goldenRatioAlignment |-> AbsSinPhiTimes(i * Scale)]>>
             ELSE <<>>
        [] depth = "deep" ->
             LET emotionalWeight ==
                   IF TruthyString(interaction.emotionalState) THEN 800 ELSE 400
                 cognitiveComplexity == LoadOrHalf(interaction.cognitiveLoad)
             IN  IF cognitiveComplexity > 700
                 THEN <<[id |-> <<"deep", i, time>>,
                         type |-> "principle",
                         content |-> <<"High cognitive load detected", slice0(interaction.userInput, 80)>>,
                         confidence |-> 850,
                         sourceInteractions |-> <<toString(i)>>,
                         emergentProperties |->
                           [resonance |-> emotionalWeight,
                            coherence |-> cognitiveComplexity,
                            applicability |-> 750],
                         goldenRatioAlignment |->
                           ((cognitiveComplexity * GOLDEN_RATIO) \div Scale) % Scale]>>
                 ELSE <<>>
        [] depth = "transcendent" ->
             LET transcendentScore ==
                   calculateTranscendentScore(interaction, resonantInteraction)
             IN  IF transcendentScore > 800
                 THEN <<[id |-> <<"transcendent", i, time>>,
                         type |-> "wisdom",
                         content |-> <<"Transcendent insight emerging", slice0(interaction.userInput, 50)>>,
                         confidence |-> 950,
                         sourceInteractions |-> <<toString(i), toString(goldenIndex)>>,
                         emergentProperties |->
                           [resonance |-> transcendentScore,
                            coherence |-> 900,
                            applicability |-> 600],
                         goldenRatioAlignment |->
                           ((transcendentScore * GOLDEN_RATIO) \div Scale) % Scale]>>
                 ELSE <<>>

\* directives.sort((a, b) => b.confidence - a.confidence), a stable sort:
\* insert d after the last element whose confidence is not smaller
RECURSIVE InsertByConfidence_ascending(_, _)
InsertByConfidence_ascending(sorted, d) ==
  IF sorted = <<>> THEN <<d>>
  ELSE IF sorted[Len(sorted)].confidence <= d.confidence THEN Append(sorted, d)
  ELSE Append(InsertByConfidence_ascending(SubSeq(sorted, 1, Len(sorted) - 1), d),
              sorted[Len(sorted)])

RECURSIVE InsertByConfidence(_, _)
InsertByConfidence(sorted, d) ==
  IF sorted = <<>> THEN <<d>>
  ELSE IF sorted[Len(sorted)].confidence >= d.confidence THEN Append(sorted, d)
  ELSE Append(InsertByConfidence(SubSeq(sorted, 1, Len(sorted) - 1), d),
              sorted[Len(sorted)])

RECURSIVE SortByConfidence(_, _)
SortByConfidence(directives, n) ==
  IF n = 0 THEN <<>>
  ELSE InsertByConfidence(SortByConfidence(directives, n - 1), directives[n])

RECURSIVE PushedUpTo(_, _, _, _)
PushedUpTo(interactions, depth, time, n) ==
  IF n = 0 THEN <<>>
  ELSE PushedUpTo(interactions, depth, time, n - 1)
         \o DirectiveAt(interactions, depth, n - 1, time)

extractTeachingDirectives(interactions, depth, time) ==
  LET directives == PushedUpTo(interactions, depth, time, Len(interactions))
  IN  SortByConfidence(directives, Len(directives))

RECURSIVE SumSeq(_, _)
SumSeq(f, n) == IF n = 0 THEN 0 ELSE f[n] + SumSeq(f, n - 1)

\* Math.max(0, 1 - (avgResponseTime / 10000))
conversationalFlowOf_withoutOne(avgResponseTime) ==
  Max(0, 0 - (avgResponseTime * Scale) \div 10000)
conversationalFlowOf(avgResponseTime) ==
  Max(0, Scale - (avgResponseTime * Scale) \div 10000)

calculateEmergentPatterns(interactions, directives) ==
  LET n == Len(interactions)
      deltas == [i \in 1..n |-> IF i = 1 THEN 0
                                ELSE interactions[i].timestamp - interactions[i - 1].timestamp]
      avgResponseTime == SumSeq(deltas, n) \div Max(n - 1, 1)
      conversationalFlow == conversationalFlowOf(avgResponseTime)
      cognitiveLoads == [i \in 1..n |-> LoadOrHalf(interactions[i].cognitiveLoad)]
      learningVelocity ==
        IF n > 1 THEN Max(0, cognitiveLoads[1] - cognitiveLoads[n]) ELSE 0
      wisdomDirectives == SelectSeq(directives, LAMBDA d : d.type = "wisdom")
      wisdomConfidences == [i \in 1..Len(wisdomDirectives) |-> wisdomDirectives[i].confidence]
      wisdomDepth ==
        IF Len(wisdomDirectives) > 0
        THEN SumSeq(wisdomConfidences, Len(wisdomDirectives)) \div Len(wisdomDirectives)
        ELSE 0
      spiralTension == AbsSinPhiTimes(n * Scale)
      alignments == [i \in 1..Len(directives) |-> directives[i].goldenRatioAlignment]
      harmonicResonance ==
        SumSeq(alignments, Len(directives)) \div Max(Len(directives), 1)
  IN  [conversationalFlow |-> conversationalFlow,
       learningVelocity |-> learningVelocity,
       wisdomDepth |-> wisdomDepth,
       sacredGeometry |-> [phi |-> GOLDEN_RATIO,
                           spiralTension |-> spiralTension,
                           harmonicResonance |-> harmonicResonance]]

generateEvolutionPath_flowFirst(patterns) ==
  LET velocity ==
        IF patterns.learningVelocity > 700
        THEN <<"Accelerate complexity introduction", "Introduce meta-cognitive frameworks">>
        ELSE IF patterns.learningVelocity < 300
        THEN <<"Simplify concept presentation", "Increase scaffolding support">>
        ELSE <<>>
      wisdom ==
        IF patterns.wisdomDepth > 800
        THEN <<"Explore transcendent connections", "Introduce sacred geometry principles">>
        ELSE <<>>
      flow ==
        IF patterns.conversationalFlow < 500
        THEN <<"Improve response timing", "Enhance emotional attunement">>
        ELSE <<>>
      harmonic ==
        IF patterns.sacredGeometry.harmonicResonance > 618
        THEN <<"Maintain harmonic resonance", "Deepen spiral learning patterns">>
        ELSE <<>>
      paths == velocity \o flow \o wisdom \o harmonic
  IN  IF Len(paths) > 0 THEN paths ELSE <<"Continue current learning trajectory">>

generateEvolutionPath(patterns) ==
  LET velocity ==
        IF patterns.learningVelocity > 700
        THEN <<"Accelerate complexity introduction", "Introduce meta-cognitive frameworks">>
        ELSE IF patterns.learningVelocity < 300
        THEN <<"Simplify concept presentation", "Increase scaffolding support">>
        ELSE <<>>
      wisdom ==
        IF patterns.wisdomDepth > 800
        THEN <<"Explore transcendent connections", "Introduce sacred geometry principles">>
        ELSE <<>>
      flow ==
        IF patterns.conversationalFlow < 500
        THEN <<"Improve response timing", "Enhance emotional attunement">>
        ELSE <<>>
      harmonic ==
        IF patterns.sacredGeometry.harmonicResonance > 618
        THEN <<"Maintain harmonic resonance", "Deepen spiral learning patterns">>
        ELSE <<>>
      paths == velocity \o wisdom \o flow \o harmonic
  IN  IF Len(paths) > 0 THEN paths ELSE <<"Continue current learning trajectory">>

\* ------------------------------------------------------------------- JSON
\* JSON.stringify drops the members whose value is undefined; the stored
\* text is represented by the value JSON.parse gives back for it.
JsonContent(content) ==
  IF "deviceFingerprint" \in DOMAIN content /\ content.deviceFingerprint = Undefined
  THEN [k \in (DOMAIN content) \ {"deviceFingerprint"} |-> content[k]]
  ELSE content

JsonBlock(block) ==
  LET b == [block EXCEPT !.data.content = JsonContent(@)]
  IN  IF "merkleRoot" \in DOMAIN b /\ b.merkleRoot = Undefined
      THEN [k \in (DOMAIN b) \ {"merkleRoot"} |-> b[k]]
      ELSE b

JsonSession(session) ==
  IF "memoryChain" \in DOMAIN session
  THEN [session EXCEPT !.memoryChain = [i \in 1..Len(@) |-> JsonBlock(@[i])]]
  ELSE session

JsonSessions(sessions) == [id \in DOMAIN sessions |-> JsonSession(sessions[id])]

\* ---------------------------------------------------------- session store
\* storage, the clock, and the last call with its result; exclusion and tasks
\* describe the calls in flight when calls overlap (none in Init)
VARIABLES storage, now, calls, call, ret, exclusion, tasks, provider

vars == <<storage, now, calls, call, ret, exclusion, tasks, provider>>

\* the state of the LimnusProvider hook: the initial values of its useState
\* calls (null is <<>>)
InitialProviderState ==
  [session |-> <<>>, currentMetrics |-> <<>>, coherenceScore |-> Scale \div 2,
   isTransitioning |-> FALSE, isLoading |-> TRUE]

\* JSON.stringify({ sessionId, timestamp, phrase: 'CONSENT_GRANTED' })
GenesisText(sessionId, timestamp) ==
  <<123, 34, 115, 101, 115, 115, 105, 111, 110, 73, 100, 34, 58, 34>>
    \o IdChars(sessionId)
    \o <<34, 44, 34, 116, 105, 109, 101, 115, 116, 97, 109, 112, 34, 58, 34>>
    \o IsoChars(timestamp)
    \o <<34, 44, 34, 112, 104, 114, 97, 115, 101, 34, 58, 34, 67, 79, 78, 83,
         69, 78, 84, 95, 71, 82, 65, 78, 84, 69, 68, 34, 125>>

genesisBlock_selfLinked(sessionId, timestamp, phrase, deviceFingerprint) ==
  [hash |-> createHash(GenesisText(sessionId, timestamp)),
   previousHash |-> createHash(GenesisText(sessionId, timestamp)),
   timestamp |-> timestamp,
   data |-> [type |-> "interaction",
             content |-> [event |-> "consent_granted",
                          phrase |-> phrase,
                          deviceFingerprint |-> deviceFingerprint],
             significance |-> Scale],
   signature |-> "genesis",
   merkleRoot |-> Undefined]

genesisBlock(sessionId, timestamp, phrase, deviceFingerprint) ==
  [hash |-> createHash(GenesisText(sessionId, timestamp)),
   previousHash |-> <<"0">>,
   timestamp |-> timestamp,
   data |-> [type |-> "interaction",
             content |-> [event |-> "consent_granted",
                          phrase |-> phrase,
                          deviceFingerprint |-> deviceFingerprint],
             significance |-> Scale],
   signature |-> "genesis",
   merkleRoot |-> Undefined]

newSession(sessionId, timestamp, phrase, deviceFingerprint) ==
  [id |-> sessionId,
   userId |-> "anonymous",
   phase |-> "ACTIVE",
   consentTimestamp |-> timestamp,
   metrics |-> initialMetrics,
   memoryChain |-> <<genesisBlock(sessionId, timestamp, phrase, deviceFingerprint)>>,
   coherenceTarget |-> 900,
   spiralDepth |-> 1,
   lastActivity |-> timestamp,
   teachingDirectives |-> <<>>]

\* sessions[sessionId] || null: <<>> for null, <<value>> otherwise
getSession(st, sessionId) ==
  LET sessions == ParseOrEmpty(GetItem(st, STORAGE_KEYS.SESSIONS))
  IN  IF sessionId \in DOMAIN sessions THEN <<sessions[sessionId]>>
      ELSE IF sessionId \in ObjectPrototypeKeys THEN <<InheritedMember>>
      ELSE <<>>

getCurrentSession(st) ==
  LET currentSessionId == GetItem(st, STORAGE_KEYS.CURRENT_SESSION)
  IN  IF Len(currentSessionId) = 0 THEN <<>>
      ELSE getSession(st, currentSessionId[1])

\* the property key session.id gives: String(undefined) when it is missing
SessionKey(session) ==
  IF "id" \in DOMAIN session THEN session.id ELSE "undefined"

storeSession_overwriteAll(st, session) ==
  SetItem(st, STORAGE_KEYS.SESSIONS,
          JsonSessions([id \in {SessionKey(session)} |-> session]))

storeSession(st, session) ==
  LET sessions == ParseOrEmpty(GetItem(st, STORAGE_KEYS.SESSIONS))
      updated == Spread(sessions, [id \in {SessionKey(session)} |-> session])
  IN  SetItem(st, STORAGE_KEYS.SESSIONS, JsonSessions(updated))

setCurrentSession_keepFirst(st, sessionId) ==
  IF HasItem(st, STORAGE_KEYS.CURRENT_SESSION) THEN st
  ELSE SetItem(st, STORAGE_KEYS.CURRENT_SESSION, sessionId)

setCurrentSession(st, sessionId) ==
  SetItem(st, STORAGE_KEYS.CURRENT_SESSION, sessionId)

\* generateUUID: a random version-4 UUID; the model takes an id no stored
\* session carries.
generateUUID(st) ==
  SessionIds \ DOMAIN ParseOrEmpty(GetItem(st, STORAGE_KEYS.SESSIONS))

\* phrase !== ACTIVATION_PHRASE is false
isActivationPhrase_nonEmpty(phrase) == phrase # ""
isActivationPhrase(phrase) == phrase = ACTIVATION_PHRASE

\* session.metrics under a spread: nothing when it is undefined
SessionMetrics(session) ==
  IF "metrics" \in DOMAIN session THEN session.metrics ELSE <<>>

\* const newMetrics = { ...session.metrics, ...cleanedMetrics }
newMetricsOf_replace(session, cleanedMetrics) ==
  Spread(initialMetrics, cleanedMetrics)
newMetricsOf(session, cleanedMetrics) ==
  Spread(SessionMetrics(session), cleanedMetrics)

\* const updatedSession = { ...session, metrics: newMetrics, lastActivity: ... }
updatedSessionOf(session, newMetrics, timestamp) ==
  Spread(session, [metrics |-> newMetrics, lastActivity |-> timestamp])

\* the five removeItem calls of clearAllData
removeAllItems(st) ==
  RemoveItem(RemoveItem(RemoveItem(RemoveItem(RemoveItem(st,
    STORAGE_KEYS.SESSIONS), STORAGE_KEYS.CURRENT_SESSION),
    STORAGE_KEYS.METRICS), STORAGE_KEYS.MEMORY_CHAINS),
    STORAGE_KEYS.TEACHING_DIRECTIVES)

Init ==
  /\ storage = EmptyStorage
  /\ now = 0
  /\ calls = 0
  /\ call = [op |-> "none"]
  /\ ret = [status |-> "none"]
  /\ exclusion = "none"
  /\ tasks = <<>>
  /\ provider = InitialProviderState

\* the clock advances between and during calls
Tick ==
  /\ now < MaxTime
  /\ now' = now + 1
  /\ UNCHANGED <<storage, calls, call, ret, exclusion, tasks, provider>>

CreateSession(phrase, deviceFingerprint) ==
  /\ calls < MaxCalls
  /\ calls' = calls + 1
  /\ UNCHANGED <<exclusion, tasks, provider>>
  /\ call' = [op |-> "createSession", phrase |-> phrase,
              deviceFingerprint |-> deviceFingerprint]
  /\ IF ~isActivationPhrase(phrase)
     THEN /\ ret' = [status |-> "error", message |-> InvalidConsentMsg]
          /\ UNCHANGED <<storage, now>>
     ELSE \E sessionId \in generateUUID(storage), spiralSeed \in SpiralSeeds :
            LET session == newSession(sessionId, now, phrase, deviceFingerprint)
            IN  /\ storage' = setCurrentSession(storeSession(storage, session), sessionId)
                /\ ret' = [status |-> "ok", sessionId |-> sessionId,
                           phase |-> "ACTIVE", metrics |-> initialMetrics,
                           spiralSeed |-> spiralSeed]
                /\ UNCHANGED now

GetSession(sessionId) ==
  /\ calls < MaxCalls
  /\ calls' = calls + 1
  /\ UNCHANGED <<exclusion, tasks, provider>>
  /\ call' = [op |-> "getSession", sessionId |-> sessionId]
  /\ ret' = [status |-> "ok", value |-> getSession(storage, sessionId)]
  /\ UNCHANGED <<storage, now>>

GetCurrentSession ==
  /\ calls < MaxCalls
  /\ calls' = calls + 1
  /\ UNCHANGED <<exclusion, tasks, provider>>
  /\ call' = [op |-> "getCurrentSession"]
  /\ ret' = [status |-> "ok", value |-> getCurrentSession(storage)]
  /\ UNCHANGED <<storage, now>>

\* context?.duration || 0
DurationOrZero(context) == IF Len(context) = 0 THEN 0 ELSE context[1].duration

\* context?.userInput ? calculateInteractionComplexity(context.userInput) : undefined
InteractionPatternOf_emptyCounts(context) ==
  IF Len(context) = 1 /\ Len(context[1].userInput) = 1
  THEN <<calculateInteractionComplexity(context[1].userInput[1])>>
  ELSE <<>>

InteractionPatternOf(context) ==
  IF Len(context) = 1 /\ Len(context[1].userInput) = 1
       /\ Len(context[1].userInput[1]) > 0
  THEN <<calculateInteractionComplexity(context[1].userInput[1])>>
  ELSE <<>>

updatedMetricsOf_callerLast(metrics, context) ==
  LET sessionDuration == DurationOrZero(context)
  IN  Spread(
        [phaseAlignment |-> <<calculatePhaseAlignment(sessionDuration)>>,
         responseLatency |-> <<DurationOrZero(context) * Scale>>,
         interactionPattern |-> InteractionPatternOf(context),
         spiralResonance |-> <<calculateSpiralResonance(sessionDuration)>>,
         consciousnessDepth |-> <<calculateConsciousnessDepth(sessionDuration)>>],
        metrics)

updatedMetricsOf(metrics, context) ==
  LET sessionDuration == DurationOrZero(context)
  IN  Spread(metrics,
        [phaseAlignment |-> <<calculatePhaseAlignment(sessionDuration)>>,
         responseLatency |-> <<DurationOrZero(context) * Scale>>,
         interactionPattern |-> InteractionPatternOf(context),
         spiralResonance |-> <<calculateSpiralResonance(sessionDuration)>>,
         consciousnessDepth |-> <<calculateConsciousnessDepth(sessionDuration)>>])

UpdateMetrics(sessionId, metrics, context) ==
  /\ calls < MaxCalls
  /\ calls' = calls + 1
  /\ UNCHANGED <<exclusion, tasks, provider>>
  /\ call' = [op |-> "updateMetrics", sessionId |-> sessionId,
              metrics |-> metrics, context |-> context]
  /\ LET found == getSession(storage, sessionId)
     IN  IF Len(found) = 0
         THEN /\ ret' = [status |-> "error", message |-> SessionNotFoundMsg]
              /\ UNCHANGED <<storage, now>>
         ELSE LET session == found[1]
                  cleanedMetrics == RemoveUndefined(updatedMetricsOf(metrics, context))
                  newMetrics == newMetricsOf(session, cleanedMetrics)
                  updatedSession == updatedSessionOf(session, newMetrics, now)
              IN  /\ storage' = storeSession(storage, updatedSession)
                  /\ \E later \in now..Min(now + 1, MaxTime) :
                       /\ now' = later
                       /\ ret' = [status |-> "ok", success |-> TRUE,
                                  updatedMetrics |-> cleanedMetrics,
                                  timestamp |-> later,
                                  coherenceScore |-> calculateOverallCoherence(cleanedMetrics)]

\* obj[key] = value on a plain object: under the key "__proto__", when the
\* object has no member of its own of that name, the assignment runs the
\* setter inherited from Object.prototype, which replaces the prototype and
\* adds no member, so JSON.stringify writes the object's members as they were
AssignMember(obj, key, value) ==
  IF key = "__proto__" /\ key \notin DOMAIN obj
  THEN obj
  ELSE Spread(obj, [id \in {key} |-> value])

storeTeachingDirectives(st, sessionId, directives) ==
  LET allDirectives == ParseOrEmpty(GetItem(st, STORAGE_KEYS.TEACHING_DIRECTIVES))
      updated == AssignMember(allDirectives, sessionId, directives)
  IN  SetItem(st, STORAGE_KEYS.TEACHING_DIRECTIVES, updated)

ScaffoldReflection(sessionId, interactions, reflectionDepth) ==
  /\ calls < MaxCalls
  /\ calls' = calls + 1
  /\ UNCHANGED <<exclusion, tasks, provider>>
  /\ call' = [op |-> "scaffoldReflection", sessionId |-> sessionId,
              interactions |-> interactions, reflectionDepth |-> reflectionDepth]
  /\ LET teachingDirectives == extractTeachingDirectives(interactions, reflectionDepth, now)
         emergentPatterns == calculateEmergentPatterns(interactions, teachingDirectives)
         nextEvolutionPath == generateEvolutionPath(emergentPatterns)
     IN  /\ storage' = storeTeachingDirectives(storage, sessionId, teachingDirectives)
         /\ ret' = [status |-> "ok", sessionId |-> sessionId,
                    teachingDirectives |-> teachingDirectives,
                    emergentPatterns |-> emergentPatterns,
                    nextEvolutionPath |-> nextEvolutionPath,
                    timestamp |-> now]
  /\ UNCHANGED now

ClearAllData ==
  /\ calls < MaxCalls
  /\ calls' = calls + 1
  /\ UNCHANGED <<exclusion, tasks, provider>>
  /\ call' = [op |-> "clearAllData"]
  /\ storage' = removeAllItems(storage)
  /\ ret' = [status |-> "ok"]
  /\ UNCHANGED now

Next ==
  \/ Tick
  \/ \E phrase \in Phrases, deviceFingerprint \in Fingerprints :
       CreateSession(phrase, deviceFingerprint)
  \/ \E sessionId \in LookupIds : GetSession(sessionId)
  \/ GetCurrentSession
  \/ \E sessionId \in LookupIds, input \in UpdateInputs :
       UpdateMetrics(sessionId, input[1], input[2])
  \/ \E sessionId \in ScaffoldIds, interactions \in InteractionBatches,
          reflectionDepth \in ReflectionDepths :
       ScaffoldReflection(sessionId, interactions, reflectionDepth)
  \/ ClearAllData

Spec == Init /\ [][Next]_vars

\* ------------------------------------------------- failing storage calls
\* What a caller catches when an AsyncStorage promise rejects and the
\* rejection reaches it.
StorageFailureMsg == "<AsyncStorage rejection>"

\* The storage calls of each operation, in the order it awaits them; a call
\* that rejects leaves its item as it was.
CreateSessionStorageCalls ==
  <<"storeSession.getItem", "storeSession.setItem", "setCurrentSession.setItem">>
GetCurrentSessionStorageCalls ==
  <<"getCurrentSession.getItem", "getSession.getItem">>
UpdateMetricsStorageCalls ==
  <<"getSession.getItem", "storeSession.getItem", "storeSession.setItem">>
ScaffoldReflectionStorageCalls ==
  <<"storeTeachingDirectives.getItem", "storeTeachingDirectives.setItem">>

\* createSession when its k-th storage call rejects: storeSession and
\* setCurrentSession rethrow, and createSession has no handler
CreateSessionFailing(phrase, deviceFingerprint, k) ==
  /\ calls < MaxCalls
  /\ isActivationPhrase(phrase)
  /\ calls' = calls + 1
  /\ UNCHANGED <<exclusion, tasks, provider>>
  /\ call' = [op |-> "createSession", phrase |-> phrase,
              deviceFingerprint |-> deviceFingerprint,
              failing |-> CreateSessionStorageCalls[k]]
  /\ \E sessionId \in generateUUID(storage) :
       LET session == newSession(sessionId, now, phrase, deviceFingerprint)
       IN  storage' = IF CreateSessionStorageCalls[k] = "setCurrentSession.setItem"
                      THEN storeSession(storage, session)
                      ELSE storage
  /\ ret' = [status |-> "error", message |-> StorageFailureMsg]
  /\ UNCHANGED now

\* getSession when its getItem rejects: the catch block returns null
GetSessionFailing(sessionId) ==
  /\ calls < MaxCalls
  /\ calls' = calls + 1
  /\ UNCHANGED <<exclusion, tasks, provider>>
  /\ call' = [op |-> "getSession", sessionId |-> sessionId,
              failing |-> "getSession.getItem"]
  /\ ret' = [status |-> "ok", value |-> <<>>]
  /\ UNCHANGED <<storage, now>>

\* getCurrentSession when its k-th getItem rejects: its own catch block, or
\* the one of getSession, returns null
GetCurrentSessionFailing(k) ==
  /\ calls < MaxCalls
  /\ k = 2 => HasItem(storage, STORAGE_KEYS.CURRENT_SESSION)
  /\ calls' = calls + 1
  /\ UNCHANGED <<exclusion, tasks, provider>>
  /\ call' = [op |-> "getCurrentSession",
              failing |-> GetCurrentSessionStorageCalls[k]]
  /\ ret' = [status |-> "ok", value |-> <<>>]
  /\ UNCHANGED <<storage, now>>

\* updateMetrics when its k-th storage call rejects: getSession answers null
\* and updateMetrics throws its own error; storeSession rethrows
UpdateMetricsFailing(sessionId, metrics, context, k) ==
  /\ calls < MaxCalls
  /\ k > 1 => Len(getSession(storage, sessionId)) = 1
  /\ calls' = calls + 1
  /\ UNCHANGED <<exclusion, tasks, provider>>
  /\ call' = [op |-> "updateMetrics", sessionId |-> sessionId,
              metrics |-> metrics, context |-> context,
              failing |-> UpdateMetricsStorageCalls[k]]
  /\ ret' = [status |-> "error",
             message |-> IF k = 1 THEN SessionNotFoundMsg ELSE StorageFailureMsg]
  /\ UNCHANGED <<storage, now>>

\* scaffoldReflection when a storage call of storeTeachingDirectives rejects
ScaffoldReflectionFailing(sessionId, interactions, reflectionDepth, k) ==
  /\ calls < MaxCalls
  /\ calls' = calls + 1
  /\ UNCHANGED <<exclusion, tasks, provider>>
  /\ call' = [op |-> "scaffoldReflection", sessionId |-> sessionId,
              interactions |-> interactions, reflectionDepth |-> reflectionDepth,
              failing |-> ScaffoldReflectionStorageCalls[k]]
  /\ ret' = [status |-> "error", message |-> StorageFailureMsg]
  /\ UNCHANGED <<storage, now>>

\* clearAllData when the removeItem of one key rejects: Promise.all has
\* started the five removals together, the other four complete
ClearAllDataFailing(key) ==
  /\ calls < MaxCalls
  /\ calls' = calls + 1
  /\ UNCHANGED <<exclusion, tasks, provider>>
  /\ call' = [op |-> "clearAllData", failing |-> key]
  /\ storage' = [k \in StorageKeyNames |->
                   IF k = key THEN storage[k] ELSE <<>>]
  /\ ret' = [status |-> "error", message |-> StorageFailureMsg]
  /\ UNCHANGED now

FaultNext ==
  \/ Tick
  \/ \E phrase \in Phrases, deviceFingerprint \in Fingerprints :
       CreateSession(phrase, deviceFingerprint)
  \/ \E deviceFingerprint \in Fingerprints,
          k \in 1..Len(CreateSessionStorageCalls) :
       CreateSessionFailing(ACTIVATION_PHRASE, deviceFingerprint, k)
  \/ \E sessionId \in LookupIds : GetSessionFailing(sessionId)
  \/ \E k \in 1..Len(GetCurrentSessionStorageCalls) : GetCurrentSessionFailing(k)
  \/ \E sessionId \in LookupIds, input \in UpdateInputs,
          k \in 1..Len(UpdateMetricsStorageCalls) :
       UpdateMetricsFailing(sessionId, input[1], input[2], k)
  \/ \E sessionId \in ScaffoldIds, k \in 1..Len(ScaffoldReflectionStorageCalls) :
       ScaffoldReflectionFailing(sessionId, SingleBatch, "surface", k)
  \/ \E key \in StorageKeyNames : ClearAllDataFailing(key)

FaultSpec == Init /\ [][FaultNext]_vars

\* ------------------------------------------------------------ observations
Sessions(st) == ParseOrEmpty(GetItem(st, STORAGE_KEYS.SESSIONS))
AllDirectives(st) == ParseOrEmpty(GetItem(st, STORAGE_KEYS.TEACHING_DIRECTIVES))

\* the step is a call of the named operation
IsCall(op) == calls' = calls + 1 /\ call'.op = op

IsPrefix(a, b) == Len(a) <= Len(b) /\ \A i \in 1..Len(a) : a[i] = b[i]

\* ------------------------------------------------------ overlapping calls
\* Every await of updateMetrics and scaffoldReflection is a point where
\* another call can run: getSession's getItem, then the getItem and the
\* setItem of storeSession (or of storeTeachingDirectives).
TaskIds == {<<"t1", "t2", "t3">>[i] : i \in 1..MaxTasks}

\* the calls that overlap
TaskCalls ==
  {[op |-> "updateMetrics", sessionId |-> sessionId,
    metrics |-> input[1], context |-> input[2]] :
     sessionId \in SessionIds,
     input \in {<<CombinedMetrics, MessageContext>>, <<MessageMetrics, NoContext>>}}
  \cup
  {[op |-> "scaffoldReflection", sessionId |-> sessionId,
    interactions |-> input[1], reflectionDepth |-> input[2]] :
     sessionId \in SessionIds,
     input \in {<<SingleBatch, "surface">>, <<TripleBatch, "deep">>}}

\* the storage after createSession was called once for each id
RECURSIVE StorageWithSessions(_)
StorageWithSessions(n) ==
  IF n = 0 THEN EmptyStorage
  ELSE setCurrentSession(
         storeSession(StorageWithSessions(n - 1),
                      newSession(IdNames[n], 0, ACTIVATION_PHRASE, Undefined)),
         IdNames[n])

NewTask(c) ==
  [call |-> c, pc |-> "start", session |-> <<>>, result |-> <<>>,
   read |-> <<>>, finished |-> 0]

\* The exclusion the callers apply: "session" serializes the calls on one
\* session id, "store" serializes all calls.
Exclusions == {"session", "store"}

ConcInit ==
  /\ storage = StorageWithSessions(MaxSessions)
  /\ now = 0
  /\ calls = 0
  /\ call = [op |-> "none"]
  /\ ret = [status |-> "none"]
  /\ exclusion \in Exclusions
  /\ tasks \in [TaskIds -> {NewTask(c) : c \in TaskCalls}]
  /\ provider = InitialProviderState

InCall(t) == tasks[t].pc \in {"getSession", "storeRead", "storeWrite"}

Excludes(t, u) ==
  \/ exclusion = "store"
  \/ exclusion = "session" /\ tasks[t].call.sessionId = tasks[u].call.sessionId

\* the call starts once no call it is excluded with is in progress;
\* scaffoldReflection computes its directives before it stores them
Acquire(t) ==
  /\ tasks[t].pc = "start"
  /\ \A u \in TaskIds \ {t} : InCall(u) => ~Excludes(t, u)
  /\ tasks' =
       [tasks EXCEPT ![t] =
          IF tasks[t].call.op = "updateMetrics"
          THEN [tasks[t] EXCEPT !.pc = "getSession"]
          ELSE [tasks[t] EXCEPT !.pc = "storeRead",
                                !.result = extractTeachingDirectives(
                                             tasks[t].call.interactions,
                                             tasks[t].call.reflectionDepth, now)]]
  /\ UNCHANGED <<storage, now, calls, call, ret, exclusion, provider>>

\* const session = await this.getSession(sessionId), up to updatedSession
GetSessionStep(t) ==
  /\ tasks[t].pc = "getSession"
  /\ LET found == getSession(storage, tasks[t].call.sessionId)
         cleanedMetrics ==
           RemoveUndefined(updatedMetricsOf(tasks[t].call.metrics,
                                            tasks[t].call.context))
     IN  /\ Len(found) = 1
         /\ tasks' =
              [tasks EXCEPT ![t] =
                 [tasks[t] EXCEPT !.pc = "storeRead",
                           !.result = cleanedMetrics,
                           !.session =
                             <<updatedSessionOf(found[1],
                                 newMetricsOf(found[1], cleanedMetrics), now)>>]]
  /\ UNCHANGED <<storage, now, calls, call, ret, exclusion, provider>>

TaskItem(t) ==
  IF tasks[t].call.op = "updateMetrics"
  THEN STORAGE_KEYS.SESSIONS ELSE STORAGE_KEYS.TEACHING_DIRECTIVES

\* the getItem of storeSession / storeTeachingDirectives
StoreRead(t) ==
  /\ tasks[t].pc = "storeRead"
  /\ tasks' = [tasks EXCEPT ![t] =
                 [tasks[t] EXCEPT !.pc = "storeWrite",
                           !.read = GetItem(storage, TaskItem(t))]]
  /\ UNCHANGED <<storage, now, calls, call, ret, exclusion, provider>>

\* the setItem of storeSession / storeTeachingDirectives: what was read,
\* with the one member assigned
StoreWrite(t) ==
  /\ tasks[t].pc = "storeWrite"
  /\ LET asRead == [storage EXCEPT ![TaskItem(t)] = tasks[t].read]
         written ==
           IF tasks[t].call.op = "updateMetrics"
           THEN storeSession(asRead, tasks[t].session[1])
           ELSE storeTeachingDirectives(asRead, tasks[t].call.sessionId,
                                        tasks[t].result)
     IN  storage' = [storage EXCEPT ![TaskItem(t)] = written[TaskItem(t)]]
  /\ tasks' = [tasks EXCEPT ![t] =
                 [tasks[t] EXCEPT !.pc = "done",
                           !.finished =
                             1 + Cardinality({u \in TaskIds : tasks[u].pc = "done"})]]
  /\ UNCHANGED <<now, calls, call, ret, exclusion, provider>>

ConcNext ==
  \/ \E t \in TaskIds : Acquire(t)
  \/ \E t \in TaskIds : GetSessionStep(t)
  \/ \E t \in TaskIds : StoreRead(t)
  \/ \E t \in TaskIds : StoreWrite(t)

ConcSpec == ConcInit /\ [][ConcNext]_vars

AllDone == \A t \in TaskIds : tasks[t].pc = "done"

\* the task that completed last among those of t's operation and session
\* that wrote what t wrote (member k of the metrics, or the directive list)
LastWriter(t, k) ==
  CHOOSE u \in TaskIds :
    /\ tasks[u].call.op = tasks[t].call.op
    /\ tasks[u].call.sessionId = tasks[t].call.sessionId
    /\ tasks[t].call.op = "updateMetrics" => k \in DOMAIN tasks[u].result
    /\ \A v \in TaskIds :
         (/\ tasks[v].call.op = tasks[t].call.op
          /\ tasks[v].call.sessionId = tasks[t].call.sessionId
          /\ tasks[t].call.op = "updateMetrics" => k \in DOMAIN tasks[v].result)
           => tasks[v].finished <= tasks[u].finished

\* every completed call's write is in the storage, unless a later call on
\* the same session wrote the same member
NoLostUpdate ==
  \A t \in TaskIds :
    LET s == tasks[t].call.sessionId
    IN  IF tasks[t].call.op = "updateMetrics"
        THEN /\ s \in DOMAIN Sessions(storage)
             /\ \A k \in DOMAIN tasks[t].result :
                  /\ k \in DOMAIN Sessions(storage)[s].metrics
                  /\ Sessions(storage)[s].metrics[k]
                       = tasks[LastWriter(t, k)].result[k]
        ELSE /\ s \in DOMAIN AllDirectives(storage)
             /\ AllDirectives(storage)[s] = tasks[LastWriter(t, "")].result

\* ------------------------------------------- reflection on many batches
\* scaffoldReflection called once on every batch of up to MaxBatch
\* interactions that differ in text, emotionalState and cognitiveLoad
\* (missing, 0, 0.1, 0.9), sent every 0.5 s or every 8 s.
RECURSIVE KindLists(_)
KindLists(n) ==
  IF n = 0 THEN {<<>>}
  ELSE KindLists(n - 1)
         \cup {Append(ks, [userInput |-> text, emotionalState |-> emotionalState,
                           cognitiveLoad |-> cognitiveLoad]) :
                 ks \in {x \in KindLists(n - 1) : Len(x) = n - 1},
                 text \in {TextSpiral, TextWhy},
                 emotionalState \in {Undefined, "calm"},
                 cognitiveLoad \in {<<>>, <<0>>, <<Scale \div 10>>,
                                    <<9 * (Scale \div 10)>>}}

ReflectBatches ==
  {[i \in 1..Len(kinds) |->
      Interaction((i - 1) * gap, kinds[i].userInput, kinds[i].emotionalState,
                  kinds[i].cognitiveLoad)] :
     kinds \in KindLists(MaxBatch), gap \in {500, 8000}}

ReflectInit ==
  /\ storage = EmptyStorage
  /\ now = 0
  /\ calls = 0
  /\ call = [op |-> "none"]
  /\ ret = [status |-> "none"]
  /\ exclusion = "none"
  /\ tasks = <<>>
  /\ provider = InitialProviderState

ReflectNext ==
  /\ calls = 0
  /\ \E interactions \in ReflectBatches, reflectionDepth \in ReflectionDepths :
       ScaffoldReflection(IdNames[1], interactions, reflectionDepth)

ReflectSpec == ReflectInit /\ [][ReflectNext]_vars

\* ------------------------------------------- a clear overlapping calls
\* clearAllData called while updateMetrics and scaffoldReflection calls are
\* in progress: the five removeItem calls of its Promise.all complete one
\* at a time, in any order, between the awaits of the other calls.
ClearInit ==
  /\ storage = StorageWithSessions(MaxSessions)
  /\ now = 0
  /\ calls = 0
  /\ call = [op |-> "none"]
  /\ ret = [status |-> "none"]
  /\ exclusion = "none"
  /\ tasks \in [TaskIds ->
                  {NewTask(c) : c \in {x \in TaskCalls :
                                         IF x.op = "updateMetrics"
                                         THEN x.metrics = MessageMetrics
                                         ELSE x.reflectionDepth = "surface"}}]
  /\ provider = InitialProviderState

\* clearAllData is called once every other call has begun
ClearStart ==
  /\ call.op = "none"
  /\ \A t \in TaskIds : tasks[t].pc # "start"
  /\ call' = [op |-> "clearAllData", pending |-> StorageKeyNames]
  /\ calls' = calls + 1
  /\ UNCHANGED <<storage, now, ret, exclusion, tasks, provider>>

\* one AsyncStorage.removeItem completes; the Promise.all resolves with the
\* last of them
RemoveItemStep(key) ==
  /\ call.op = "clearAllData"
  /\ key \in call.pending
  /\ storage' = RemoveItem(storage, key)
  /\ call' = [call EXCEPT !.pending = call.pending \ {key}]
  /\ ret' = IF call.pending = {key} THEN [status |-> "ok"] ELSE ret
  /\ UNCHANGED <<now, calls, exclusion, tasks, provider>>

\* if (!session) throw new Error('Session not found')
GetSessionAbsent(t) ==
  /\ tasks[t].pc = "getSession"
  /\ Len(getSession(storage, tasks[t].call.sessionId)) = 0
  /\ tasks' = [tasks EXCEPT ![t] =
                 [tasks[t] EXCEPT !.pc = "done", !.result = SessionNotFoundMsg]]
  /\ UNCHANGED <<storage, now, calls, call, ret, exclusion, provider>>

ClearNext ==
  \/ \E t \in TaskIds : Acquire(t)
  \/ \E t \in TaskIds : GetSessionStep(t)
  \/ \E t \in TaskIds : GetSessionAbsent(t)
  \/ \E t \in TaskIds : StoreRead(t)
  \/ \E t \in TaskIds : StoreWrite(t)
  \/ ClearStart
  \/ \E key \in StorageKeyNames : RemoveItemStep(key)

ClearSpec == ClearInit /\ [][ClearNext]_vars

\* ------------------------------------------- updates of stored sessions
\* updateMetrics calls on a store in which createSession has stored a
\* session for each id
UpdateInit ==
  /\ storage = StorageWithSessions(MaxSessions)
  /\ now = 0
  /\ calls = 0
  /\ call = [op |-> "none"]
  /\ ret = [status |-> "none"]
  /\ exclusion = "none"
  /\ tasks = <<>>
  /\ provider = InitialProviderState

UpdateNext ==
  \/ Tick
  \/ \E sessionId \in LookupIds, input \in UpdateInputs :
       UpdateMetrics(sessionId, input[1], input[2])

UpdateSpec == UpdateInit /\ [][UpdateNext]_vars

\* -------------------------------------------------------- the hash utility
\* texts of the code units of "0" and "a" and of the largest code unit
RECURSIVE HashTexts(_)
HashTexts(n) ==
  IF n = 0 THEN {<<>>}
  ELSE HashTexts(n - 1)
         \cup {Append(t, c) : t \in {x \in HashTexts(n - 1) : Len(x) = n - 1},
                              c \in {48, 97, 65535}}

\* "xfjfxtf", whose rolling value is -2^31
TextMostNegative == <<120, 102, 106, 102, 120, 116, 102>>

HashInit ==
  /\ storage = EmptyStorage
  /\ now = 0
  /\ calls = 0
  /\ call \in {[op |-> "createHash", data |-> d] :
                 d \in HashTexts(MaxHashLen) \cup {TextMostNegative, TextSpiral}}
  /\ ret = [status |-> "none"]
  /\ exclusion = "none"
  /\ tasks = <<>>
  /\ provider = InitialProviderState

\* this.createHash(data), called twice on the same data
CreateHash ==
  /\ calls < 2
  /\ calls' = calls + 1
  /\ ret' = [status |-> "ok", value |-> createHash(call.data)]
  /\ UNCHANGED <<storage, now, call, exclusion, tasks, provider>>

HashSpec == HashInit /\ [][CreateHash]_vars

\* the value of a hex digit, -1 for any other character
HexValue(ch) ==
  IF \E i \in 1..16 : HexDigits[i] = ch
  THEN (CHOOSE i \in 1..16 : HexDigits[i] = ch) - 1
  ELSE -1

\* rendering is the toString(16) of an integer in 0..2^31: hex digits only,
\* no leading zero but for "0" itself, at most 8 digits and at most 80000000
IsUnsignedHex(rendering) ==
  /\ Len(rendering) \in 1..8
  /\ \A i \in 1..Len(rendering) : HexValue(rendering[i]) >= 0
  /\ Len(rendering) > 1 => rendering[1] # "0"
  /\ Len(rendering) = 8 /\ HexValue(rendering[1]) >= 8
       => rendering = <<"8", "0", "0", "0", "0", "0", "0", "0">>

\* ------------------------------------------------- the coherence score
\* calculateOverallCoherence of the provider: sum / values.length, "NaN" for
\* 0 / 0
providerCalculateOverallCoherence_lengthMinusOne(metrics) ==
  IF Cardinality(DOMAIN metrics) = 0 THEN "NaN"
  ELSE SumValues(metrics, DOMAIN metrics) \div (Cardinality(DOMAIN metrics) - 1)

providerCalculateOverallCoherence(metrics) ==
  IF Cardinality(DOMAIN metrics) = 0 THEN "NaN"
  ELSE SumValues(metrics, DOMAIN metrics) \div Cardinality(DOMAIN metrics)

\* metrics records: every record over up to three keys with values 0, 0.5,
\* 1 and 2, and the ConsciousnessMetrics records that are all 0 or all 1
\* but for at most one field
MetricsRecords ==
  LET partialKeys == {"phaseAlignment", "spiralResonance", "clarity"}
      partialValues == {0, Scale \div 2, Scale, 2 * Scale}
  IN  UNION {[keys -> partialValues] : keys \in SUBSET partialKeys}
        \cup {[k \in MetricKeys |-> IF k = other THEN Scale - base ELSE base] :
                other \in MetricKeys \cup {"none"}, base \in {0, Scale}}

CoherenceInit ==
  /\ storage = EmptyStorage
  /\ now = 0
  /\ calls = 0
  /\ call \in {[op |-> "calculateOverallCoherence", metrics |-> m] :
                 m \in MetricsRecords}
  /\ ret = [status |-> "none"]
  /\ exclusion = "none"
  /\ tasks = <<>>
  /\ provider = InitialProviderState

\* the store's calculateOverallCoherence, which takes any record
StoreCoherence ==
  /\ calls = 0
  /\ calls' = 1
  /\ ret' = [status |-> "ok", by |-> "store",
             value |-> calculateOverallCoherence(call.metrics)]
  /\ UNCHANGED <<storage, now, call, exclusion, tasks, provider>>

\* the provider's calculateOverallCoherence, which takes ConsciousnessMetrics
ProviderCoherence ==
  /\ calls = 0
  /\ MetricKeys \subseteq DOMAIN call.metrics
  /\ calls' = 1
  /\ ret' = [status |-> "ok", by |-> "provider",
             value |-> providerCalculateOverallCoherence(call.metrics)]
  /\ UNCHANGED <<storage, now, call, exclusion, tasks, provider>>

CoherenceSpec == CoherenceInit /\ [][StoreCoherence \/ ProviderCoherence]_vars

\* ------------------------------------------------------ the LimnusProvider
\* The hook's startConsent and reset, called while others are in flight;
\* each await is a point where another call continues.
ProviderInit ==
  /\ storage = EmptyStorage
  /\ now = 0
  /\ calls = 0
  /\ call = [op |-> "none"]
  /\ ret = [status |-> "none"]
  /\ exclusion = "none"
  /\ tasks \in [TaskIds ->
                  {NewTask(c) :
                     c \in {[op |-> "startConsent", phrase |-> phrase] :
                              phrase \in Phrases} \cup {[op |-> "reset"]}}]
  /\ provider = InitialProviderState

\* the effect run on mount: loadCurrentSession
LoadCurrentSession ==
  /\ provider.isLoading
  /\ LET currentSession == getCurrentSession(storage)
     IN  provider' =
           IF Len(currentSession) = 1
           THEN [provider EXCEPT
                   !.session = currentSession,
                   !.currentMetrics = <<currentSession[1].metrics>>,
                   !.coherenceScore =
                     providerCalculateOverallCoherence(currentSession[1].metrics),
                   !.isLoading = FALSE]
           ELSE [provider EXCEPT !.isLoading = FALSE]
  /\ UNCHANGED <<storage, now, calls, call, ret, exclusion, tasks>>

\* startConsent up to its first await: the phrase check and
\* setIsTransitioning(true)
StartConsent(t) ==
  /\ tasks[t].pc = "start"
  /\ tasks[t].call.op = "startConsent"
  /\ IF ~isActivationPhrase(tasks[t].call.phrase)
     THEN /\ tasks' = [tasks EXCEPT ![t] =
                         [tasks[t] EXCEPT !.pc = "rejected",
                                          !.result = InvalidConsentMsg]]
          /\ UNCHANGED provider
     ELSE /\ tasks' = [tasks EXCEPT ![t] = [tasks[t] EXCEPT !.pc = "createSession"]]
          /\ provider' = [provider EXCEPT !.isTransitioning = TRUE]
  /\ UNCHANGED <<storage, now, calls, call, ret, exclusion>>

\* const result = await limnusStorage.createSession(phrase)
ConsentCreateSession(t) ==
  /\ tasks[t].pc = "createSession"
  /\ \E sessionId \in generateUUID(storage) :
       /\ storage' = setCurrentSession(
                       storeSession(storage,
                         newSession(sessionId, now, tasks[t].call.phrase, Undefined)),
                       sessionId)
       /\ tasks' = [tasks EXCEPT ![t] =
                      [tasks[t] EXCEPT !.pc = "getSession",
                                       !.result = [sessionId |-> sessionId,
                                                   metrics |-> initialMetrics]]]
  /\ UNCHANGED <<now, calls, call, ret, exclusion, provider>>

\* createSession rejects because its k-th storage call rejects: the finally
\* block runs and startConsent rejects
ConsentCreateSessionFailing_withoutFinally(t, k) ==
  /\ tasks[t].pc = "createSession"
  /\ \E sessionId \in generateUUID(storage) :
       LET session == newSession(sessionId, now, tasks[t].call.phrase, Undefined)
       IN  storage' = IF CreateSessionStorageCalls[k] = "setCurrentSession.setItem"
                      THEN storeSession(storage, session)
                      ELSE storage
  /\ tasks' = [tasks EXCEPT ![t] =
                 [tasks[t] EXCEPT !.pc = "rejected", !.result = StorageFailureMsg]]
  /\ UNCHANGED <<now, calls, call, ret, exclusion, provider>>

ConsentCreateSessionFailing(t, k) ==
  /\ tasks[t].pc = "createSession"
  /\ \E sessionId \in generateUUID(storage) :
       LET session == newSession(sessionId, now, tasks[t].call.phrase, Undefined)
       IN  storage' = IF CreateSessionStorageCalls[k] = "setCurrentSession.setItem"
                      THEN storeSession(storage, session)
                      ELSE storage
  /\ tasks' = [tasks EXCEPT ![t] =
                 [tasks[t] EXCEPT !.pc = "rejected", !.result = StorageFailureMsg]]
  /\ provider' = [provider EXCEPT !.isTransitioning = FALSE]
  /\ UNCHANGED <<now, calls, call, ret, exclusion>>

\* const newSession = await limnusStorage.getSession(result.sessionId), the
\* setters and the finally block; getSession returns null when its getItem
\* rejects
ConsentGetSession(t, rejects) ==
  /\ tasks[t].pc = "getSession"
  /\ LET newSession_ == IF rejects THEN <<>>
                        ELSE getSession(storage, tasks[t].result.sessionId)
     IN  provider' =
           IF Len(newSession_) = 1
           THEN [provider EXCEPT
                   !.session = newSession_,
                   !.currentMetrics = <<tasks[t].result.metrics>>,
                   !.coherenceScore =
                     providerCalculateOverallCoherence(tasks[t].result.metrics),
                   !.isTransitioning = FALSE]
           ELSE [provider EXCEPT !.isTransitioning = FALSE]
  /\ tasks' = [tasks EXCEPT ![t] = [tasks[t] EXCEPT !.pc = "resolved"]]
  /\ UNCHANGED <<storage, now, calls, call, ret, exclusion>>

\* reset: await limnusStorage.clearAllData(); a rejection is caught and
\* logged, and no setter runs
ResetClear(t, rejects) ==
  /\ tasks[t].pc = "start"
  /\ tasks[t].call.op = "reset"
  /\ storage' = IF rejects THEN storage ELSE removeAllItems(storage)
  /\ tasks' = [tasks EXCEPT ![t] =
                 [tasks[t] EXCEPT !.pc = IF rejects THEN "resolved" ELSE "setters"]]
  /\ UNCHANGED <<now, calls, call, ret, exclusion, provider>>

\* reset after the await: the four setters
ResetSetters(t) ==
  /\ tasks[t].pc = "setters"
  /\ provider' = [provider EXCEPT !.session = <<>>,
                                  !.currentMetrics = <<>>,
                                  !.coherenceScore = Scale \div 2,
                                  !.isTransitioning = FALSE]
  /\ tasks' = [tasks EXCEPT ![t] = [tasks[t] EXCEPT !.pc = "resolved"]]
  /\ UNCHANGED <<storage, now, calls, call, ret, exclusion>>

ProviderNext ==
  \/ LoadCurrentSession
  \/ \E t \in TaskIds : StartConsent(t)
  \/ \E t \in TaskIds : ConsentCreateSession(t)
  \/ \E t \in TaskIds, k \in 1..Len(CreateSessionStorageCalls) :
       ConsentCreateSessionFailing(t, k)
  \/ \E t \in TaskIds, rejects \in BOOLEAN : ConsentGetSession(t, rejects)
  \/ \E t \in TaskIds, rejects \in BOOLEAN : ResetClear(t, rejects)
  \/ \E t \in TaskIds : ResetSetters(t)

ProviderSpec == ProviderInit /\ [][ProviderNext]_vars

\* a startConsent call with the activation phrase is in flight in ts
ValidConsentInFlight(ts) ==
  \E t \in TaskIds :
    /\ ts[t].call.op = "startConsent"
    /\ ts[t].call.phrase = ACTIVATION_PHRASE
    /\ ts[t].pc \in {"createSession", "getSession"}

\* ------------------------------------------------ the sort of directives
\* The last statement of extractTeachingDirectives applied to lists of
\* directives of every confidence the loop pushes (0.7, 0.85, 0.95), in
\* every order.
RECURSIVE DirectiveLists(_)
DirectiveLists(n) ==
  IF n = 0 THEN {<<>>}
  ELSE DirectiveLists(n - 1)
         \cup {Append(ds, [id |-> <<"synthetic", Len(ds)>>, confidence |-> c]) :
                 ds \in {x \in DirectiveLists(n - 1) : Len(x) = n - 1},
                 c \in {700, 850, 950}}

SortInit ==
  /\ storage = EmptyStorage
  /\ now = 0
  /\ calls = 0
  /\ call \in {[op |-> "sort", directives |-> ds] : ds \in DirectiveLists(MaxDirectives)}
  /\ ret = [status |-> "none"]
  /\ exclusion = "none"
  /\ tasks = <<>>
  /\ provider = InitialProviderState

\* return directives.sort((a, b) => b.confidence - a.confidence)
SortDirectives ==
  /\ calls = 0
  /\ calls' = 1
  /\ ret' = [status |-> "ok",
             value |-> SortByConfidence(call.directives, Len(call.directives))]
  /\ UNCHANGED <<storage, now, call, exclusion, tasks, provider>>

SortSpec == SortInit /\ [][SortDirectives]_vars

\* ------------------------------------------------------------------ claims

\* C1: createSession with any phrase other than the activation phrase fails
\* with the invalid-consent error and leaves every storage item as it was.
C1_InvalidPhrasePersistsNothing ==
  [][(IsCall("createSession") /\ call'.phrase # ACTIVATION_PHRASE)
       => /\ ret'.status = "error"
          /\ ret'.message = InvalidConsentMsg
          /\ storage' = storage]_vars

C1_Witness ==
  /\ call.op = "createSession"
  /\ call.phrase # ACTIVATION_PHRASE
  /\ ret.status = "error"
  /\ DOMAIN Sessions(storage) # {}

\* C2: a successful createSession persists a session whose memoryChain is
\* exactly one block with previousHash "0", signature "genesis", data.type
\* "interaction" and significance 1.0.
C2_GenesisBlock ==
  (call.op = "createSession" /\ ret.status = "ok")
    => /\ ret.sessionId \in DOMAIN Sessions(storage)
       /\ LET chain == Sessions(storage)[ret.sessionId].memoryChain
          IN  /\ Len(chain) = 1
              /\ chain[1].previousHash = <<"0">>
              /\ chain[1].signature = "genesis"
              /\ chain[1].data.type = "interaction"
              /\ chain[1].data.significance = Scale

C2_Witness ==
  /\ call.op = "createSession"
  /\ ret.status = "ok"
  /\ Cardinality(DOMAIN Sessions(storage)) = 2

\* C3: while a session stays persisted its memoryChain only grows at the end
\* (the chain before a step is a prefix of the chain after it), and the first
\* block of every persisted chain is the genesis block with previousHash "0".
C3_ChainAppendOnly ==
  [][/\ \A id \in (DOMAIN Sessions(storage)) \cap (DOMAIN Sessions(storage')) :
          /\ "memoryChain" \in DOMAIN Sessions(storage)[id]
          /\ "memoryChain" \in DOMAIN Sessions(storage')[id]
          /\ IsPrefix(Sessions(storage)[id].memoryChain,
                      Sessions(storage')[id].memoryChain)
     /\ \A id \in DOMAIN Sessions(storage') :
          /\ "memoryChain" \in DOMAIN Sessions(storage')[id]
          /\ LET chain == Sessions(storage')[id].memoryChain
             IN  /\ Len(chain) >= 1
                 /\ chain[1].previousHash = <<"0">>
                 /\ chain[1].signature = "genesis"]_vars

\* C4: after a successful createSession returning id s, getSession(s) is the
\* new session, getCurrentSession() is that same session, and every session
\* stored before is still returned unchanged under its own id.
C4_CreatedSessionRetrievable ==
  [][(IsCall("createSession") /\ ret'.status = "ok")
       => /\ Len(getSession(storage', ret'.sessionId)) = 1
          /\ getSession(storage', ret'.sessionId)[1].id = ret'.sessionId
          /\ getSession(storage', ret'.sessionId)[1].metrics = ret'.metrics
          /\ getSession(storage', ret'.sessionId)[1].phase = ret'.phase
          /\ getSession(storage', ret'.sessionId)[1].consentTimestamp = now
          /\ ret'.sessionId \notin DOMAIN Sessions(storage)
          /\ getCurrentSession(storage') = getSession(storage', ret'.sessionId)
          /\ \A id \in DOMAIN Sessions(storage) :
               getSession(storage', id) = <<Sessions(storage)[id]>>]_vars

C4_Witness ==
  /\ call.op = "createSession"
  /\ ret.status = "ok"
  /\ \E id \in DOMAIN Sessions(storage) :
       /\ id # ret.sessionId
       /\ Sessions(storage)[id].metrics # initialMetrics

\* C5: clearAllData can be called in every state and succeeds; afterwards
\* getCurrentSession() and getSession(id) for every id are absent and no
\* directive list is stored; a second clearAllData right after the first
\* leaves the storage as the first left it.
C5_ClearAllDataIdempotent ==
  [][/\ (calls < MaxCalls) => ENABLED ClearAllData
     /\ IsCall("clearAllData")
          => /\ ret'.status = "ok"
             /\ getCurrentSession(storage') = <<>>
             /\ \A id \in LookupIds : getSession(storage', id) = <<>>
             /\ DOMAIN AllDirectives(storage') = {}
             /\ \A key \in StorageKeyNames : ~HasItem(storage', key)
     /\ (IsCall("clearAllData") /\ call.op = "clearAllData")
          => storage' = storage]_vars

\* C6: updateMetrics on an id that is not in the sessions store fails with
\* the session-not-found error and leaves every storage item as it was.
C6_UnknownSessionRejected ==
  [][(IsCall("updateMetrics") /\ call'.sessionId \notin DOMAIN Sessions(storage))
       => /\ ret'.status = "error"
          /\ ret'.message = SessionNotFoundMsg
          /\ storage' = storage]_vars

\* C7: a successful updateMetrics(s, ...) changes, in the whole storage, only
\* session s's lastActivity and the metric fields present in the cleaned
\* record; the other metric fields of s keep their values, the other fields
\* of s (coherenceTarget 0.9 and spiralDepth 1 among them) are unchanged, and
\* so are the other sessions, the current-session pointer and the directives.
C7_UpdateMetricsFrame ==
  [][(IsCall("updateMetrics") /\ ret'.status = "ok")
       => /\ call'.sessionId \in DOMAIN Sessions(storage)
          /\ DOMAIN Sessions(storage') = DOMAIN Sessions(storage)
          /\ LET s == call'.sessionId
                 old == Sessions(storage)[s]
                 new == Sessions(storage')[s]
                 cleaned == DOMAIN ret'.updatedMetrics
             IN  /\ DOMAIN new = DOMAIN old
                 /\ DOMAIN new.metrics = (DOMAIN old.metrics) \cup cleaned
                 /\ \A k \in (DOMAIN old.metrics) \ cleaned :
                      new.metrics[k] = old.metrics[k]
                 /\ \A f \in (DOMAIN old) \ {"metrics", "lastActivity"} :
                      new[f] = old[f]
                 /\ \A id \in (DOMAIN Sessions(storage)) \ {s} :
                      Sessions(storage')[id] = Sessions(storage)[id]
                 /\ \A key \in StorageKeyNames \ {STORAGE_KEYS.SESSIONS} :
                      storage'[key] = storage[key]]_vars

\* C8: after a successful updateMetrics the stored and the returned
\* phaseAlignment, spiralResonance and consciousnessDepth are the values
\* derived from context.duration (0 when absent), whatever the caller supplied.
C8_DerivedOverridesCaller ==
  (call.op = "updateMetrics" /\ ret.status = "ok")
    => LET d == IF Len(call.context) = 1 THEN call.context[1].duration ELSE 0
           key == IF call.sessionId \in DOMAIN Sessions(storage)
                  THEN call.sessionId ELSE "undefined"
           derived == [phaseAlignment |-> calculatePhaseAlignment(d),
                       spiralResonance |-> calculateSpiralResonance(d),
                       consciousnessDepth |-> calculateConsciousnessDepth(d)]
       IN  /\ key \in DOMAIN Sessions(storage)
           /\ \A k \in DOMAIN derived :
                /\ k \in DOMAIN ret.updatedMetrics
                /\ ret.updatedMetrics[k] = derived[k]
                /\ k \in DOMAIN Sessions(storage)[key].metrics
                /\ Sessions(storage)[key].metrics[k] = derived[k]

C8_Witness ==
  /\ call.op = "updateMetrics"
  /\ ret.status = "ok"
  /\ call.sessionId \in DOMAIN Sessions(storage)
  /\ \A k \in {"phaseAlignment", "spiralResonance", "consciousnessDepth"} :
       /\ k \in DOMAIN call.metrics
       /\ Len(call.metrics[k]) = 1
       /\ call.metrics[k][1] # ret.updatedMetrics[k]

\* C9: the coherenceScore a successful updateMetrics returns is the
\* arithmetic mean (truncated to the 1/Scale grid) of the values of the
\* returned updatedMetrics record.
C9_CoherenceOfCleanedRecord ==
  (call.op = "updateMetrics" /\ ret.status = "ok")
    => LET n == Cardinality(DOMAIN ret.updatedMetrics)
           total == SumValues(ret.updatedMetrics, DOMAIN ret.updatedMetrics)
       IN  /\ n > 0
           /\ ret.coherenceScore * n <= total
           /\ total < (ret.coherenceScore + 1) * n

C9_Witness ==
  /\ call.op = "updateMetrics"
  /\ ret.status = "ok"
  /\ call.sessionId \in DOMAIN Sessions(storage)
  /\ LET full == Sessions(storage)[call.sessionId].metrics
     IN  ret.coherenceScore
           # SumValues(full, DOMAIN full) \div Cardinality(DOMAIN full)

\* C10: the metrics record of every persisted session that createSession
\* stored has exactly the 21 fields of ConsciousnessMetrics.
C10_MetricsShapeFixed ==
  \A id \in (DOMAIN Sessions(storage)) \cap SessionIds :
    /\ DOMAIN Sessions(storage)[id].metrics = MetricKeys
    /\ Cardinality(DOMAIN Sessions(storage)[id].metrics) = CONSCIOUSNESS_METRICS_COUNT

\* C11: a successful scaffoldReflection(s, ...) leaves the list it returns as
\* the stored list of s, whatever was stored for s before; the lists of the
\* other ids, the sessions item (s's inline teachingDirectives included) and
\* the current-session pointer are as before.
C11_DirectivesReplaced ==
  [][(IsCall("scaffoldReflection") /\ ret'.status = "ok")
       => LET s == call'.sessionId
          IN  /\ s \in DOMAIN AllDirectives(storage')
              /\ AllDirectives(storage')[s] = ret'.teachingDirectives
              /\ DOMAIN AllDirectives(storage')
                   = (DOMAIN AllDirectives(storage)) \cup {s}
              /\ \A id \in (DOMAIN AllDirectives(storage)) \ {s} :
                   AllDirectives(storage')[id] = AllDirectives(storage)[id]
              /\ \A key \in StorageKeyNames \ {STORAGE_KEYS.TEACHING_DIRECTIVES} :
                   storage'[key] = storage[key]]_vars

\* C12: scaffoldReflection on an id under which no session is persisted fails
\* with the session-not-found error and stores no directive list under it.
C12_ScaffoldUnknownSessionRejected ==
  [][(IsCall("scaffoldReflection")
        /\ call'.sessionId \notin DOMAIN Sessions(storage))
       => /\ ret'.status = "error"
          /\ ret'.message = SessionNotFoundMsg
          /\ call'.sessionId \notin DOMAIN AllDirectives(storage')]_vars

\* C13: when a storage read rejects during getSession, getCurrentSession or
\* updateMetrics, the caller gets that storage failure: not an absent
\* result and not the session-not-found error.
C13_ReadFailurePropagated ==
  [][(/\ calls' = calls + 1
      /\ call'.op \in {"getSession", "getCurrentSession", "updateMetrics"}
      /\ "failing" \in DOMAIN call'
      /\ call'.failing \in {"getSession.getItem", "getCurrentSession.getItem",
                            "storeSession.getItem"})
       => /\ ret'.status = "error"
          /\ ret'.message = StorageFailureMsg]_vars

\* C14: a createSession, updateMetrics, scaffoldReflection or clearAllData
\* call in which a storage call rejects leaves every storage item as it was
\* before the call.
C14_NoPartialEffects ==
  [][(/\ calls' = calls + 1
      /\ call'.op \in {"createSession", "updateMetrics", "scaffoldReflection",
                       "clearAllData"}
      /\ "failing" \in DOMAIN call')
       => storage' = storage]_vars

\* C15 (as stated): when calls on the same session id exclude each other and
\* calls on different session ids interleave at their storage reads and
\* writes, after all calls completed no update is lost.
C15_SessionExclusionNoLostUpdate ==
  (exclusion = "session" /\ AllDone) => NoLostUpdate

\* C15 (amended): when every call excludes every other call, whatever the
\* session id, after all calls completed no update is lost.
C15_StoreExclusionNoLostUpdate ==
  (exclusion = "store" /\ AllDone) => NoLostUpdate

C15_Witness ==
  /\ exclusion = "store"
  /\ AllDone
  /\ \E t, u \in TaskIds :
       /\ tasks[t].call.op = "updateMetrics"
       /\ tasks[u].call.op = "updateMetrics"
       /\ tasks[t].call.sessionId # tasks[u].call.sessionId
       /\ tasks[t].finished < tasks[u].finished
       /\ Sessions(storage)[tasks[t].call.sessionId].metrics["emotionalDepth"] = 300

\* C16: at surface depth scaffoldReflection returns one directive for each
\* interaction whose userInput contains "?" and none for the others; each
\* has type pattern, confidence 0.7 and the index of its interaction as its
\* only source.
C16_SurfaceDirectives ==
  (call.op = "scaffoldReflection" /\ ret.status = "ok"
     /\ call.reflectionDepth = "surface")
    => LET asking == {i \in 1..Len(call.interactions) :
                        \E j \in 1..Len(call.interactions[i].userInput) :
                          call.interactions[i].userInput[j] = 63}
           ds == ret.teachingDirectives
       IN  /\ Len(ds) = Cardinality(asking)
           /\ \A i \in asking :
                \E n \in 1..Len(ds) : ds[n].sourceInteractions = <<toString(i - 1)>>
           /\ \A n \in 1..Len(ds) :
                /\ ds[n].type = "pattern"
                /\ ds[n].confidence = 700
                /\ \E i \in asking : ds[n].sourceInteractions = <<toString(i - 1)>>

C16_Witness ==
  /\ call.op = "scaffoldReflection"
  /\ ret.status = "ok"
  /\ call.reflectionDepth = "surface"
  /\ Len(call.interactions) = 3
  /\ Len(ret.teachingDirectives) = 1
  /\ ret.teachingDirectives[1].sourceInteractions = <<"1">>

\* C17 (as stated): at deep depth an empty batch gives no directive,
\* learningVelocity 0 and conversationalFlow 0.
C17_EmptyBatchFlowZero ==
  (call.op = "scaffoldReflection" /\ ret.status = "ok"
     /\ call.reflectionDepth = "deep" /\ call.interactions = <<>>)
    => /\ ret.teachingDirectives = <<>>
       /\ ret.emergentPatterns.learningVelocity = 0
       /\ ret.emergentPatterns.conversationalFlow = 0

\* C17 (amended): at deep depth an empty batch gives no directive,
\* learningVelocity 0 and conversationalFlow 1.
C17_EmptyBatchFlowOne ==
  (call.op = "scaffoldReflection" /\ ret.status = "ok"
     /\ call.reflectionDepth = "deep" /\ call.interactions = <<>>)
    => /\ ret.teachingDirectives = <<>>
       /\ ret.emergentPatterns.learningVelocity = 0
       /\ ret.emergentPatterns.conversationalFlow = Scale

C17_Witness ==
  /\ call.op = "scaffoldReflection"
  /\ ret.status = "ok"
  /\ call.reflectionDepth = "deep"
  /\ call.interactions = <<>>
  /\ call.sessionId \in DOMAIN Sessions(storage)

C19_DerivedFromDurationOnly ==
  [][(IsCall("updateMetrics") /\ ret'.status = "ok")
       => LET key == IF call'.sessionId \in DOMAIN Sessions(storage)
                     THEN call'.sessionId ELSE "undefined"
              stored == Sessions(storage')[key].metrics
              duration == IF Len(call'.context) = 1
                          THEN call'.context[1].duration ELSE 0
              before == IF call.sessionId \in SessionIds
                        THEN call.sessionId ELSE "undefined"
              derivedKeys == {"phaseAlignment", "spiralResonance",
                              "consciousnessDepth"}
          IN  /\ duration = 0
                   => /\ stored["phaseAlignment"] = Scale \div 2
                      /\ stored["spiralResonance"] = Scale
                      /\ stored["consciousnessDepth"] = 0
              /\ (/\ call.op = "updateMetrics"
                  /\ ret.status = "ok"
                  /\ duration = (IF Len(call.context) = 1
                                 THEN call.context[1].duration ELSE 0))
                   => \A k \in derivedKeys :
                        stored[k] = Sessions(storage)[before].metrics[k]]_vars

C19_Witness ==
  /\ call.op = "updateMetrics"
  /\ ret.status = "ok"
  /\ call.metrics = CombinedMetrics
  /\ call.context = EmptyMessageContext
  /\ call.sessionId \in SessionIds
  /\ \E other \in SessionIds \ {call.sessionId} :
       /\ Sessions(storage)[other].metrics["consciousnessDepth"] = 0
       /\ Sessions(storage)[other].metrics["spiralResonance"] = Scale
       /\ Sessions(storage)[other].metrics["emotionalDepth"]
            # Sessions(storage)[call.sessionId].metrics["emotionalDepth"]

\* C20: the coherence score of a metrics record whose values all lie in
\* [0,1] lies in [0,1]; it is 0 when they are all 0 and 1 when they are all
\* 1; for the store's and for the provider's calculateOverallCoherence.
C20_CoherenceInUnitInterval ==
  (call.op = "calculateOverallCoherence" /\ ret.status = "ok"
     /\ \A k \in DOMAIN call.metrics :
          0 <= call.metrics[k] /\ call.metrics[k] <= Scale)
    => /\ ret.value \in 0..Scale
       /\ (DOMAIN call.metrics # {} /\ \A k \in DOMAIN call.metrics : call.metrics[k] = 0)
            => ret.value = 0
       /\ (DOMAIN call.metrics # {} /\ \A k \in DOMAIN call.metrics : call.metrics[k] = Scale)
            => ret.value = Scale

C20_Witness ==
  /\ call.op = "calculateOverallCoherence"
  /\ ret.status = "ok"
  /\ ret.by = "provider"
  /\ DOMAIN call.metrics = MetricKeys
  /\ \A k \in MetricKeys : call.metrics[k] = Scale
  /\ ret.value = Scale

\* C21: createHash returns, for every input (the empty string and an input
\* whose rolling value is -2^31 included), the hexadecimal rendering of a
\* non-negative integer without a minus sign, and the same rendering each
\* time it is applied to the same input.
C21_HashUnsignedHex ==
  [][(call'.op = "createHash" /\ ret'.status = "ok")
       => /\ IsUnsignedHex(ret'.value)
          /\ (ret.status = "ok" /\ call' = call) => ret'.value = ret.value]_vars

C21_Witness ==
  /\ call.op = "createHash"
  /\ call.data = TextMostNegative
  /\ calls = 2
  /\ ret.status = "ok"
  /\ ret.value = <<"8", "0", "0", "0", "0", "0", "0", "0">>

\* C22: when a successful createSession is followed by
\* updateMetrics(id, {}, {action: "x", duration: 5000}) on the session it
\* created, the phaseAlignment, spiralResonance and consciousnessDepth of
\* the persisted session are each within [0,1] and each differs from the
\* value the session was created with.
C22_DerivedAfterFiveSeconds ==
  [][(/\ call.op = "createSession"
      /\ ret.status = "ok"
      /\ IsCall("updateMetrics")
      /\ call'.sessionId = ret.sessionId
      /\ call'.metrics = NoMetrics
      /\ call'.context = TimedContext)
       => /\ ret'.status = "ok"
          /\ \A k \in {"phaseAlignment", "spiralResonance", "consciousnessDepth"} :
               LET created == Sessions(storage)[ret.sessionId].metrics[k]
                   persisted == Sessions(storage')[ret.sessionId].metrics[k]
               IN  /\ created = initialMetrics[k]
                   /\ persisted \in 0..Scale
                   /\ persisted # created]_vars

C22_Witness ==
  /\ call.op = "updateMetrics"
  /\ calls = 2
  /\ call.sessionId \in SessionIds
  /\ call.metrics = NoMetrics
  /\ call.context = TimedContext
  /\ ret.status = "ok"
  /\ Cardinality(DOMAIN Sessions(storage)) = 1
  /\ Sessions(storage)[call.sessionId].metrics["phaseAlignment"] = 567
  /\ Sessions(storage)[call.sessionId].metrics["spiralResonance"] = Scale
  /\ Sessions(storage)[call.sessionId].metrics["consciousnessDepth"] = 19

\* C23: once clearAllData has completed, while no createSession or
\* scaffoldReflection has been started since, getSession(id) is absent for
\* every session created before the clear, getCurrentSession() is absent
\* and no directive list is stored, also when an updateMetrics or
\* scaffoldReflection call that began before the clear writes after it.
C23_ClearedStaysCleared ==
  (call.op = "clearAllData" /\ ret.status = "ok")
    => /\ \A id \in SessionIds : Len(getSession(storage, id)) = 0
       /\ Len(getCurrentSession(storage)) = 0
       /\ DOMAIN AllDirectives(storage) = {}

\* C24: learningVelocity is max(0, load(first) - load(last)), load being the
\* interaction's cognitiveLoad when it is supplied, a supplied 0 included,
\* and 0.5 only when it is missing; it is 0 for at most one interaction.
C24_LearningVelocity ==
  (call.op = "scaffoldReflection" /\ ret.status = "ok")
    => LET n == Len(call.interactions)
           load(x) == IF Len(x.cognitiveLoad) = 1 THEN x.cognitiveLoad[1]
                      ELSE Scale \div 2
       IN  ret.emergentPatterns.learningVelocity =
             IF n <= 1 THEN 0
             ELSE Max(0, load(call.interactions[1]) - load(call.interactions[n]))

\* C25: nextEvolutionPath is never empty; its strings stand in the order of
\* the rules (learning velocity, wisdom depth, conversational flow, harmonic
\* resonance); the strings of learningVelocity > 0.7 and those of
\* learningVelocity < 0.3 never appear together; 'Continue current learning
\* trajectory' appears exactly when none of the five threshold conditions
\* holds, and is then the only element.
C25_EvolutionPath ==
  (call.op = "scaffoldReflection" /\ ret.status = "ok")
    => LET path == ret.nextEvolutionPath
           patterns == ret.emergentPatterns
           ruleOrder ==
             <<"Accelerate complexity introduction", "Introduce meta-cognitive frameworks",
               "Simplify concept presentation", "Increase scaffolding support",
               "Explore transcendent connections", "Introduce sacred geometry principles",
               "Improve response timing", "Enhance emotional attunement",
               "Maintain harmonic resonance", "Deepen spiral learning patterns">>
           fallback == "Continue current learning trajectory"
           rank(str) == CHOOSE r \in 1..Len(ruleOrder) : ruleOrder[r] = str
           has(str) == \E i \in 1..Len(path) : path[i] = str
           noneHolds ==
             /\ ~(patterns.learningVelocity > 700)
             /\ ~(patterns.learningVelocity < 300)
             /\ ~(patterns.wisdomDepth > 800)
             /\ ~(patterns.conversationalFlow < 500)
             /\ ~(patterns.sacredGeometry.harmonicResonance > 618)
       IN  /\ Len(path) > 0
           /\ has(fallback) <=> noneHolds
           /\ has(fallback) => path = <<fallback>>
           /\ ~has(fallback) =>
                /\ \A i \in 1..Len(path) : \E r \in 1..Len(ruleOrder) : ruleOrder[r] = path[i]
                /\ \A i \in 1..(Len(path) - 1) : rank(path[i]) < rank(path[i + 1])
           /\ ~(has(ruleOrder[1]) /\ has(ruleOrder[3]))

C25_Witness ==
  /\ call.op = "scaffoldReflection"
  /\ ret.status = "ok"
  /\ ret.nextEvolutionPath =
       <<"Simplify concept presentation", "Increase scaffolding support",
         "Explore transcendent connections", "Introduce sacred geometry principles",
         "Improve response timing", "Enhance emotional attunement">>

\* C26: a successful updateMetrics on a stored session whose context has no
\* userInput (no context, no userInput, or the empty string) returns
\* updatedMetrics without interactionPattern and leaves the session's
\* stored interactionPattern as it was, also when the caller supplied one;
\* with a non-empty userInput the value stored and returned is the one
\* computed from userInput, not the caller's.
C26_InteractionPatternFromUserInput ==
  [][(/\ IsCall("updateMetrics")
      /\ ret'.status = "ok"
      /\ call'.sessionId \in SessionIds)
       => LET context == call'.context
              absent == \/ Len(context) = 0
                        \/ Len(context[1].userInput) = 0
                        \/ context[1].userInput[1] = <<>>
              before == Sessions(storage)[call'.sessionId].metrics
              after == Sessions(storage')[call'.sessionId].metrics
          IN  IF absent
              THEN /\ "interactionPattern" \notin DOMAIN ret'.updatedMetrics
                   /\ after["interactionPattern"] = before["interactionPattern"]
              ELSE /\ ret'.updatedMetrics["interactionPattern"]
                        = calculateInteractionComplexity(context[1].userInput[1])
                   /\ after["interactionPattern"]
                        = ret'.updatedMetrics["interactionPattern"]]_vars

C26_Witness ==
  /\ call.op = "updateMetrics"
  /\ ret.status = "ok"
  /\ call.sessionId \in SessionIds
  /\ call.metrics = CombinedMetrics
  /\ call.context = EmptyMessageContext
  /\ "interactionPattern" \notin DOMAIN ret.updatedMetrics
  /\ Sessions(storage)[call.sessionId].metrics["interactionPattern"] = 263

\* C27: in a sequence of calls that do not overlap and whose storage calls
\* succeed, the current-session pointer is set by a successful
\* createSession to the session it created, removed by clearAllData and
\* left alone by every other call; whenever it is set it names a session
\* of the sessions store, which getCurrentSession() returns, and
\* getCurrentSession() returns absent exactly when it is not set, that is
\* when no session was created since the last clearAllData.
C27_CurrentSessionIsLatest ==
  [][(calls' = calls + 1)
       => LET pointer == GetItem(storage, STORAGE_KEYS.CURRENT_SESSION)
              pointerAfter == GetItem(storage', STORAGE_KEYS.CURRENT_SESSION)
              current == getCurrentSession(storage')
          IN  /\ pointerAfter =
                   IF call'.op = "createSession" /\ ret'.status = "ok"
                   THEN <<ret'.sessionId>>
                   ELSE IF call'.op = "clearAllData" THEN <<>>
                   ELSE pointer
              /\ Len(pointerAfter) = 1
                   => /\ pointerAfter[1] \in SessionIds
                      /\ pointerAfter[1] \in DOMAIN Sessions(storage')
                      /\ Len(current) = 1
                      /\ current[1].id = pointerAfter[1]
              /\ Len(pointerAfter) = 0 <=> Len(current) = 0]_vars

C27_Witness ==
  /\ call.op = "createSession"
  /\ ret.status = "ok"
  /\ calls = MaxCalls
  /\ Cardinality(DOMAIN Sessions(storage)) = 1
  /\ Len(getCurrentSession(storage)) = 1
  /\ getCurrentSession(storage)[1].id = ret.sessionId
  /\ DOMAIN Sessions(storage) = {ret.sessionId}

\* C28: every successful updateMetrics returns a cleaned update that holds
\* responseLatency, phaseAlignment, spiralResonance and consciousnessDepth,
\* so its coherenceScore is the mean of a record that is not empty, and the
\* responseLatency it returns and stores is context.duration (0 without a
\* context), whatever responseLatency the caller supplied.
C28_CleanedUpdateNeverEmpty ==
  [][(IsCall("updateMetrics") /\ ret'.status = "ok")
       => LET cleaned == ret'.updatedMetrics
              duration == IF Len(call'.context) = 1
                          THEN call'.context[1].duration ELSE 0
          IN  /\ {"responseLatency", "phaseAlignment", "spiralResonance",
                   "consciousnessDepth"} \subseteq DOMAIN cleaned
              /\ ret'.coherenceScore =
                   SumValues(cleaned, DOMAIN cleaned) \div Cardinality(DOMAIN cleaned)
              /\ cleaned["responseLatency"] = duration * Scale
              /\ call'.sessionId \in SessionIds
                   => Sessions(storage')[call'.sessionId].metrics["responseLatency"]
                        = duration * Scale]_vars

C28_Witness ==
  /\ call.op = "updateMetrics"
  /\ ret.status = "ok"
  /\ call.sessionId \in SessionIds
  /\ call.metrics = CombinedMetrics
  /\ call.metrics["responseLatency"] = <<100 * Scale>>
  /\ call.context = MessageContext
  /\ ret.updatedMetrics["responseLatency"] = 300000 * Scale
  /\ Sessions(storage)[call.sessionId].metrics["responseLatency"] = 300000 * Scale

\* C29: at transcendent depth an interaction whose resonant partner index
\* floor(i * phi) mod N is its own index produces no directive; interaction
\* 0 is never the first source of a directive, and a batch of one
\* interaction yields no directive.
C29_SelfResonanceYieldsNothing ==
  (call.op = "scaffoldReflection" /\ ret.status = "ok"
     /\ call.reflectionDepth = "transcendent")
    => LET n == Len(call.interactions)
           directives == ret.teachingDirectives
           goldenIndex(i) == ((i * GOLDEN_RATIO) \div Scale) % n
           primaries == {directives[d].sourceInteractions[1] : d \in 1..Len(directives)}
       IN  /\ \A i \in 0..(n - 1) : goldenIndex(i) = i => toString(i) \notin primaries
           /\ \A d \in 1..Len(directives) :
                /\ directives[d].type = "wisdom"
                /\ directives[d].sourceInteractions[1] # directives[d].sourceInteractions[2]
           /\ "0" \notin primaries
           /\ n = 1 => directives = <<>>

C29_Witness ==
  /\ call.op = "scaffoldReflection"
  /\ ret.status = "ok"
  /\ call.reflectionDepth = "transcendent"
  /\ Len(call.interactions) = 3
  /\ \A i \in 1..3 : /\ call.interactions[i].userInput = TextSpiral
                       /\ call.interactions[i].emotionalState = "calm"
  /\ Len(ret.teachingDirectives) = 1
  /\ ret.teachingDirectives[1].sourceInteractions = <<"2", "0">>

\* C30: isTransitioning is true only while a startConsent call with the
\* activation phrase is in flight, hence false once every such call has
\* settled, resolved or rejected by a storage failure; a startConsent call
\* with another phrase rejects at once, and leaves isTransitioning, the
\* provider's session and the storage as they were.
C30_TransitioningOnlyInFlight ==
  [][/\ provider'.isTransitioning => ValidConsentInFlight(tasks')
     /\ \A t \in TaskIds :
          (/\ tasks[t].call.op = "startConsent"
           /\ tasks[t].call.phrase # ACTIVATION_PHRASE
           /\ tasks'[t] # tasks[t])
            => /\ tasks[t].pc = "start"
               /\ tasks'[t].pc = "rejected"
               /\ tasks'[t].result = InvalidConsentMsg
               /\ provider' = provider
               /\ storage' = storage]_vars

C30_Witness ==
  /\ \E t \in TaskIds :
       /\ tasks[t].call.op = "startConsent"
       /\ tasks[t].pc = "rejected"
       /\ tasks[t].result = StorageFailureMsg
  /\ \E t \in TaskIds :
       /\ tasks[t].call.op = "startConsent"
       /\ tasks[t].pc = "rejected"
       /\ tasks[t].result = InvalidConsentMsg
  /\ ~provider.isTransitioning
  /\ ~provider.isLoading
  /\ provider.session = <<>>

====
